---- MODULE Spec2Model ----
(***************************************************************************)
(* Container Planning app (src/src/App.tsx, src/src/services/supabase.ts): *)
(* the in-memory table of the selected container, the cell edit            *)
(* controller, and the remote store they are synchronised with.            *)
(*                                                                         *)
(* Every async handler is split at its awaits: the synchronous prefix is   *)
(* one action that appends a request to `inflight`, carrying the values    *)
(* the closure captured (containerData, editingCell, selectedContainer,    *)
(* importMode); the continuation is a second action that consumes the      *)
(* request with outcome ok / failed.  The store processes a request and    *)
(* delivers its response in that same step.  Responses may arrive in any   *)
(* order.                                                                  *)
(*                                                                         *)
(* JavaScript values of the editable cells are tagged with their typeof:   *)
(* Num(n) is a number (n is the value times Scale, a fixed-point decimal), *)
(* Str(s) is a string (s is its sequence of characters).                   *)
(***************************************************************************)
EXTENDS Integers, Sequences, FiniteSets, TLC

VARIABLES
  isReadOnly,         \* App.tsx:110  VITE_READ_ONLY === 'true'
  previewModal,       \* App.tsx:41   {show, file, name}
  selectedContainer,  \* App.tsx:34
  containers,         \* App.tsx:53   local list of container names
  containerData,      \* App.tsx:107  local row list
  editingCell,        \* App.tsx:37   NoCell or [id, field]
  editValue,          \* App.tsx:38   pending text buffer (characters)
  focused,            \* the edit <input> (autoFocus) is mounted and has focus
  importMode,         \* App.tsx:40
  newContainerName,   \* App.tsx:47
  storeContainers,    \* table containers (set of names)
  storeItems,         \* table container_items (set of rows)
  nextId,             \* the id the store assigns on the next insert
  inflight,           \* requests awaiting their response, in issue order
  download,           \* App.tsx:709-718, 786-794  the file the last export saved
  history,            \* App.tsx:62-91  session history: the container parameter
                      \* of every entry's URL ("" when none), and the current entry
  ops,                \* number of user events so far (bounded by the budget)
  lastEvent           \* what the last step did: handlers run, alert, calls

vars == <<isReadOnly, previewModal, selectedContainer, containers, containerData,
          editingCell, editValue, focused, importMode, newContainerName,
          storeContainers, storeItems, nextId, inflight, download, history,
          ops, lastEvent>>

uiVars    == <<editingCell, editValue, focused>>
formVars  == <<importMode, newContainerName>>
storeVars == <<storeContainers, storeItems, nextId>>

-----------------------------------------------------------------------------
(* Bounds *)

MaxOps == 2        \* user events per behaviour, full specification
MaxOpsEdit == 4    \* user events per behaviour, cell edit specification
MaxOpsRows == 2    \* user events per behaviour, row operation specification
MaxId == 4         \* largest id the store hands out
MaxOpsAttach == 2  \* user events per behaviour, attachment specification
MaxOpsImport == 3  \* user events per behaviour, import specification
MaxOpsExport == 4  \* user events per behaviour, export specification
MaxOpsUrl == 2     \* user events per behaviour, URL specification
MaxOpsCont == 2    \* user events per behaviour, container specification

-----------------------------------------------------------------------------
(* JavaScript values *)

FracDigits == 2    \* DECIMAL(10,2): the fraction digits the store keeps

\* a number is held as value * Scale (Scale is 10^FracDigits)
Num(n) == [t |-> "number", nan |-> FALSE, v |-> n]
NaN == [t |-> "number", nan |-> TRUE, v |-> 0]
Str(s) == [t |-> "string", v |-> s]

Digits == <<"0", "1", "2", "3", "4", "5", "6", "7", "8", "9">>

IsDigit(c) == \E i \in 1..10 : Digits[i] = c

DigitVal(c) == (CHOOSE i \in 1..10 : Digits[i] = c) - 1

RECURSIVE Pow10(_)
Pow10(k) == IF k = 0 THEN 1 ELSE 10 * Pow10(k - 1)

\* Num(n).v = value * Scale
Scale == Pow10(FracDigits)

\* length of the longest prefix of s, from position i, made of digits
RECURSIVE DigitRun(_, _)
DigitRun(s, i) ==
  IF i <= Len(s) /\ IsDigit(s[i]) THEN 1 + DigitRun(s, i + 1) ELSE 0

\* value of the digits s[i..i+n-1] read as a decimal integer
RECURSIVE DigitsValue(_, _, _)
DigitsValue(s, i, n) ==
  IF n = 0 THEN 0 ELSE DigitsValue(s, i, n - 1) * 10 + DigitVal(s[i + n - 1])

\* value * Scale of the fraction digits s[i..i+n-1] (digits past FracDigits
\* are below the model's resolution)
FractionValue(s, i, n) ==
  LET k == IF n > FracDigits THEN FracDigits ELSE n
  IN DigitsValue(s, i, k) * Pow10(FracDigits - k)

RECURSIVE SkipSpaces(_, _)
SkipSpaces(s, i) ==
  IF i <= Len(s) /\ s[i] = " " THEN SkipSpaces(s, i + 1) ELSE i

\* parseFloat(string): leading whitespace, optional sign, digits, optional
\* "." and digits; the longest such prefix; NaN when it holds no digit.
parseFloat(s) ==
  LET i0 == SkipSpaces(s, 1)
      neg == i0 <= Len(s) /\ s[i0] = "-"
      i1 == IF i0 <= Len(s) /\ s[i0] \in {"-", "+"} THEN i0 + 1 ELSE i0
      nInt == DigitRun(s, i1)
      iDot == i1 + nInt
      hasDot == iDot <= Len(s) /\ s[iDot] = "."
      nFrac == IF hasDot THEN DigitRun(s, iDot + 1) ELSE 0
      mag == DigitsValue(s, i1, nInt) * Scale + FractionValue(s, iDot + 1, nFrac)
  IN IF nInt + nFrac = 0 THEN NaN
     ELSE Num(IF neg THEN 0 - mag ELSE mag)

\* JavaScript truthiness of a tagged value
Truthy(x) ==
  IF x.t = "number" THEN ~x.nan /\ x.v # 0 ELSE Len(x.v) > 0

\* x || 0
OrZero(x) == IF Truthy(x) THEN x ELSE Num(0)

RECURSIVE NatToChars(_)
NatToChars(n) ==
  IF n < 10 THEN <<Digits[n + 1]>>
  ELSE NatToChars(n \div 10) \o <<Digits[(n % 10) + 1]>>

\* the fraction digits of f / Scale (0 < f < Scale), trailing zeros dropped
RECURSIVE FractionChars(_, _)
FractionChars(f, k) ==
  IF f = 0 \/ k = 0 THEN <<>>
  ELSE LET p == Pow10(k - 1)
       IN <<Digits[(f \div p) + 1]>> \o FractionChars(f % p, k - 1)

\* String(value): a string is itself, a number is its shortest decimal form
String(x) ==
  IF x.t = "string" THEN x.v
  ELSE IF x.nan THEN <<"N", "a", "N">>
  ELSE LET m == IF x.v < 0 THEN 0 - x.v ELSE x.v
           body == NatToChars(m \div Scale) \o
                   (IF m % Scale = 0 THEN <<>>
                    ELSE <<".">> \o FractionChars(m % Scale, FracDigits))
       IN IF x.v < 0 THEN <<"-">> \o body ELSE body

\* value.replace(/[^0-9.]/g, '') and value.replace(/[^0-9]/g, '')
RECURSIVE KeepChars(_, _)
KeepChars(s, dotToo) ==
  IF s = <<>> THEN <<>>
  ELSE LET c == Head(s)
       IN (IF IsDigit(c) \/ (dotToo /\ c = ".") THEN <<c>> ELSE <<>>)
          \o KeepChars(Tail(s), dotToo)


-----------------------------------------------------------------------------
(* Rows: the app's camelCase shape and the store's snake_case shape *)

Undefined == [t |-> "undefined"]      \* an absent attachment field of a row
Null == [t |-> "null"]                \* a NULL column of the store

NoCell == [id |-> 0, field |-> "none"]   \* editingCell === null

AttachmentFields ==
  {"packingList", "commercialInvoice", "payment", "hbl", "certificates"}

NumericFields ==
  {"cbm", "cartons", "grossWeight", "productCost", "freightCost"}

\* the cells that open an <input> through startEditing
EditableFields ==
  {"referenceCode", "supplier", "cbm", "cartons", "grossWeight",
   "productCost", "freightCost", "productionDays"}

Statuses == {"Ready to Ship", "Awaiting Supplier", "Need Payment", "Pending"}

\* saveEdit: fieldMap[field] || field
fieldMap(field) ==
  CASE field = "referenceCode" -> "reference_code"
    [] field = "grossWeight" -> "gross_weight"
    [] field = "productCost" -> "product_cost"
    [] field = "freightCost" -> "freight_cost"
    [] field = "productionDays" -> "production_days"
    [] field = "productionReady" -> "production_ready"
    [] field = "packingList" -> "packing_list"
    [] field = "commercialInvoice" -> "commercial_invoice"
    [] OTHER -> field

\* handleFileUpload / deleteAttachment: supabaseFieldMap[field]
supabaseFieldMap(field) ==
  CASE field = "packingList" -> "packing_list"
    [] field = "commercialInvoice" -> "commercial_invoice"
    [] field = "payment" -> "payment"
    [] field = "hbl" -> "hbl"
    [] field = "certificates" -> "certificates"

\* addNewRow: newItem
NewItem(container) ==
  [container_name |-> container,
   reference_code |-> Str(<<>>), supplier |-> Str(<<>>),
   cbm |-> Num(0), cartons |-> Num(0), gross_weight |-> Num(0),
   product_cost |-> Num(0), freight_cost |-> Num(0),
   status |-> "Pending", awaiting |-> <<"-">>,
   production_days |-> Num(0), production_ready |-> "", client |-> ""]

StoreColumns ==
  {"id", "container_name", "reference_code", "supplier", "cbm", "cartons",
   "gross_weight", "product_cost", "freight_cost", "status", "awaiting",
   "production_days", "production_ready", "client", "packing_list",
   "commercial_invoice", "payment", "hbl", "certificates"}

AttachmentColumns ==
  {"packing_list", "commercial_invoice", "payment", "hbl", "certificates"}

\* a store that gives every inserted row the same id
InsertedRow_Mutant(item, id) ==
  [c \in StoreColumns |->
     IF c = "id" THEN 1
     ELSE IF c \in DOMAIN item THEN item[c]
     ELSE Null]

\* insert: the store assigns the id; columns the item does not give are NULL
InsertedRow(item, id) ==
  [c \in StoreColumns |->
     IF c = "id" THEN id
     ELSE IF c \in DOMAIN item THEN item[c]
     ELSE Null]

\* update ... eq('id', id): only the columns of the patch change
PatchedRow(row, patch) ==
  [c \in DOMAIN row |-> IF c \in DOMAIN patch THEN patch[c] ELSE row[c]]

\* loadContainerData: convertFileMetadata
convertFileMetadata(fileMetadata) ==
  IF fileMetadata = Null THEN Undefined
  ELSE IF "url" \in DOMAIN fileMetadata THEN fileMetadata
  ELSE IF "data" \in DOMAIN fileMetadata
       THEN [url |-> <<"blob", fileMetadata.name>>, name |-> fileMetadata.name]
  ELSE Undefined

\* created.packing_list copied as is (importFromExcel): null stays falsy
RawAttachment(x) == IF x = Null THEN Undefined ELSE x

\* item.id || 0 and the camelCase fields shared by all three conversions
PlainFields(item) ==
  [id |-> item.id,
   referenceCode |-> item.reference_code, supplier |-> item.supplier,
   cbm |-> item.cbm, cartons |-> item.cartons,
   grossWeight |-> item.gross_weight, productCost |-> item.product_cost,
   freightCost |-> item.freight_cost, status |-> item.status,
   awaiting |-> item.awaiting, productionDays |-> item.production_days,
   productionReady |-> item.production_ready, client |-> item.client]

WithAttachments(plain, pl, ci, pay, hbl, cert) ==
  [f \in DOMAIN plain \cup AttachmentFields |->
     CASE f = "packingList" -> pl
       [] f = "commercialInvoice" -> ci
       [] f = "payment" -> pay
       [] f = "hbl" -> hbl
       [] f = "certificates" -> cert
       [] OTHER -> plain[f]]

\* loadContainerData: convertedItems
ConvertLoaded(item) ==
  WithAttachments(PlainFields(item),
    convertFileMetadata(item.packing_list),
    convertFileMetadata(item.commercial_invoice),
    convertFileMetadata(item.payment),
    convertFileMetadata(item.hbl),
    convertFileMetadata(item.certificates))

\* addNewRow: convertedItem (no attachment keys: they read as undefined)
ConvertCreated(created) ==
  WithAttachments(PlainFields(created),
    Undefined, Undefined, Undefined, Undefined, Undefined)

\* importFromExcel: createdItems.push({...})
ConvertImported(created) ==
  WithAttachments(PlainFields(created),
    RawAttachment(created.packing_list),
    RawAttachment(created.commercial_invoice),
    RawAttachment(created.payment),
    RawAttachment(created.hbl),
    RawAttachment(created.certificates))

-----------------------------------------------------------------------------
(* Sequence helpers *)

Range(s) == {s[i] : i \in DOMAIN s}

\* containerData.filter(item => item.id !== id)
WithoutRow(rows, id) ==
  LET Keep(r) == r.id # id IN SelectSeq(rows, Keep)

RemoveAt(s, i) == SubSeq(s, 1, i - 1) \o SubSeq(s, i + 1, Len(s))

HasRow(rows, id) == \E i \in DOMAIN rows : rows[i].id = id

\* array.find(item => item.id === id), used where the row is known to exist
FindRow(rows, id) == rows[CHOOSE i \in DOMAIN rows : rows[i].id = id]

\* containerData.map(item => item.id === id ? { ...item, [field]: value } : item)
SetField(rows, id, field, value) ==
  [i \in DOMAIN rows |->
     IF rows[i].id = id THEN [rows[i] EXCEPT ![field] = value] ELSE rows[i]]

\* the rows of a set, ordered by id (.order('id'))
RECURSIVE SortById(_)
SortById(S) ==
  IF S = {} THEN <<>>
  ELSE LET m == CHOOSE r \in S : \A q \in S : r.id <= q.id
       IN <<m>> \o SortById(S \ {m})

-----------------------------------------------------------------------------
(* Initial state: the component has mounted and its two load effects have  *)
(* issued their requests (App.tsx:113-123, 128-197).                        *)

DefaultContainers ==
  <<"I110.12 NORTH", "I110.11 SOUTH", "I269.1", "I269.2", "SUPPLIER LIST">>

\* every container name of the model, in the order .order('name') gives
NameOrder ==
  <<"I110.11 SOUTH", "I110.12 NORTH", "I269.1", "I269.2", "I300",
    "SUPPLIER LIST">>

NameRank(n) == CHOOSE i \in DOMAIN NameOrder : NameOrder[i] = n

RECURSIVE SortByName(_)
SortByName(S) ==
  IF S = {} THEN <<>>
  ELSE LET m == CHOOSE n \in S : \A q \in S : NameRank(n) <= NameRank(q)
       IN <<m>> \o SortByName(S \ {m})

SeedRow(id, container, ref, cbm, pl, pay) ==
  [InsertedRow(NewItem(container), id) EXCEPT
     !.reference_code = Str(ref), !.cbm = Num(cbm),
     !.packing_list = pl, !.payment = pay]

SeededItems ==
  {SeedRow(1, "I110.11 SOUTH", <<"A", "1">>, 150,
           [url |-> "https://files/pl.pdf", name |-> "pl.pdf"], Null),
   SeedRow(2, "I110.11 SOUTH", <<"B">>, 0, Null,
           [name |-> "pay.png", type |-> "image/png", size |-> 3,
            data |-> "data:image/png;base64,AAAA"]),
   SeedRow(3, "I269.1", <<"C">>, 200, Null, Null)}

EmptyStore == [items |-> {}, nextId |-> 1]

SeededStore == [items |-> SeededItems, nextId |-> 4]

SmallStore == [items |-> {r \in SeededItems : r.id # 2}, nextId |-> 4]

OneRowStore == [items |-> {r \in SeededItems : r.id = 1}, nextId |-> 2]

\* two rows whose reference codes differ in a character that is no letter
\* and no digit
CollidingStore ==
  [items |-> {SeedRow(1, "I110.11 SOUTH", <<"A", "-", "1">>, 150,
                      [url |-> "https://files/pl.pdf", name |-> "pl.pdf"], Null),
              SeedRow(2, "I110.11 SOUTH", <<"A", "_", "1">>, 0, Null,
                      [name |-> "pay.png", type |-> "image/png", size |-> 3,
                       data |-> "data:image/png;base64,AAAA"])},
   nextId |-> 3]

\* a row without a reference code that has a packing list, and two rows
\* whose reference codes differ in a character that is no letter and no
\* digit and whose packing lists have the same file name
UnnamedStore ==
  [items |-> {SeedRow(1, "I110.11 SOUTH", <<>>, 150,
                      [url |-> "https://files/1/pl.pdf", name |-> "pl.pdf"], Null),
              SeedRow(2, "I110.11 SOUTH", <<"A", "-", "1">>, 0,
                      [url |-> "https://files/2/pl.pdf", name |-> "pl.pdf"], Null),
              SeedRow(3, "I110.11 SOUTH", <<"A", "_", "1">>, 0,
                      [url |-> "https://files/3/pl.pdf", name |-> "pl.pdf"], Null)},
   nextId |-> 4]

\* useState({ show: false, file: null, name: '' })
ClosedPreview == [show |-> FALSE, file |-> Null, name |-> <<>>]

\* the effect of [selectedContainer]: url.searchParams.set('container', ...)
\* and history.pushState, which drops the entries after the current one
PushState(h, name) ==
  [entries |-> Append(SubSeq(h.entries, 1, h.at), name), at |-> h.at + 1]

NoReq == [kind |-> "none"]

NoFile == [kind |-> "none"]

\* the record of a step: the handlers it ran, the alert it showed ("" when
\* none), the calls it sent to the store, the request whose response it
\* consumed and the outcome, whether every request so far has succeeded, and
\* the lists, the active cell, the store's rows and the selected container
\* as they were before the step
Event(handlers, alert, calls, done, ok) ==
  [handlers |-> handlers, alert |-> alert, calls |-> calls,
   done |-> done, ok |-> ok, clean |-> (lastEvent.clean /\ ok),
   rows |-> containerData, conts |-> containers, cell |-> editingCell,
   items |-> storeItems, sel |-> selectedContainer]

InitWith(flags, configs) ==
  /\ isReadOnly \in flags
  /\ selectedContainer = "I110.11 SOUTH"
  /\ containers = DefaultContainers
  /\ containerData = <<>>
  /\ editingCell = NoCell
  /\ editValue = <<>>
  /\ focused = FALSE
  /\ importMode = "add"
  /\ newContainerName = <<>>
  /\ storeContainers = {"I110.11 SOUTH", "I269.1"}
  /\ \E cfg \in configs :
       /\ storeItems = cfg.items
       /\ nextId = cfg.nextId
  /\ inflight = <<[kind |-> "loadContainers"],
                  [kind |-> "loadContainerData", container |-> "I110.11 SOUTH"]>>
  /\ download = NoFile
  /\ previewModal = ClosedPreview
  /\ history = PushState([entries |-> <<"">>, at |-> 1], "I110.11 SOUTH")
  /\ ops = 0
  /\ lastEvent = [handlers |-> <<"mount">>, alert |-> "",
                  calls |-> <<[method |-> "getAll"],
                              [method |-> "getByContainer",
                               container |-> "I110.11 SOUTH"]>>,
                  done |-> NoReq, ok |-> TRUE, clean |-> TRUE,
                  rows |-> <<>>, conts |-> DefaultContainers, cell |-> NoCell,
                  items |-> storeItems, sel |-> "I110.11 SOUTH"]

Init == InitWith(BOOLEAN, {SmallStore})

-----------------------------------------------------------------------------
(* The edit <input>: it is rendered inside the row whose id editingCell    *)
(* names (App.tsx:1099-1108), mounts with autoFocus, and runs saveEdit    *)
(* when it loses focus or Enter is pressed.                                *)

InputMounted(rows, cell) == cell # NoCell /\ HasRow(rows, cell.id)

\* focus after a step that leaves the row list rows2 and the active cell cell2
FocusAfter(rows2, cell2) ==
  IF ~InputMounted(rows2, cell2) THEN FALSE
  ELSE IF cell2 = editingCell /\ InputMounted(containerData, editingCell)
       THEN focused
  ELSE TRUE

ReadOnlyChanges == "Read-only mode: Changes are not allowed on this deployment."

\* if (isReadOnly) { alert(...); return; } at the head of a handler
ReadOnlyBlocks_Mutant(handler) == isReadOnly /\ handler # "handleFileUpload"

ReadOnlyBlocks(handler) == isReadOnly

\* the input's onChange (App.tsx:1103, 1139, 1158)
FilterTyped(field, s) ==
  IF field \in {"cbm", "productCost"} THEN KeepChars(s, TRUE)
  ELSE IF field \in {"cartons", "grossWeight", "freightCost", "productionDays"}
       THEN KeepChars(s, FALSE)
  ELSE s

\* saveEdit: "Convert to appropriate type"
CoerceValue_Mutant(field, text) == Str(text)

CoerceValue(field, text) ==
  IF field \in NumericFields THEN OrZero(parseFloat(text)) ELSE Str(text)

\* saveEdit: supabaseUpdate
SupabaseUpdate_Mutant(item, field, value) ==
  [c \in {fieldMap(field), "supplier"} |->
     IF c = fieldMap(field) THEN value ELSE item.supplier]

SupabaseUpdate(item, field, value) ==
  [c \in {fieldMap(field)} |-> value]

\* startEditing(id, field, currentValue): td onClick.  A click outside the
\* focused input is preceded by that input's blur, so the click is taken
\* only when no input has focus or the click lands in the input's own cell.
ClickCell(id, field) ==
  /\ HasRow(containerData, id)
  /\ ~focused \/ editingCell = [id |-> id, field |-> field]
  /\ editingCell' = [id |-> id, field |-> field]
  /\ editValue' = String(FindRow(containerData, id)[field])
  /\ focused' = TRUE
  /\ ops' = ops + 1
  /\ lastEvent' = Event(<<"startEditing">>, "", <<>>, NoReq, TRUE)
  /\ UNCHANGED <<isReadOnly, previewModal, download, history, selectedContainer, containers, containerData,
                 formVars, storeVars, inflight>>

\* onChange of the focused input
TypeValue(s) ==
  /\ focused
  /\ editValue' = FilterTyped(editingCell.field, s)
  /\ ops' = ops + 1
  /\ lastEvent' = Event(<<"setEditValue">>, "", <<>>, NoReq, TRUE)
  /\ UNCHANGED <<isReadOnly, previewModal, download, history, selectedContainer, containers, containerData,
                 editingCell, focused, formVars, storeVars, inflight>>

\* saveEdit up to its await; keepFocus is FALSE when it runs from onBlur
saveEdit(keepFocus) ==
  /\ ops' = ops + 1
  /\ UNCHANGED <<isReadOnly, previewModal, download, history, selectedContainer, containers, containerData,
                 formVars, storeVars>>
  /\ IF editingCell = NoCell
     THEN /\ focused' = (focused /\ keepFocus)
          /\ lastEvent' = Event(<<"saveEdit">>, "", <<>>, NoReq, TRUE)
          /\ UNCHANGED <<editingCell, editValue, inflight>>
     ELSE IF ReadOnlyBlocks("saveEdit")
     THEN /\ editingCell' = NoCell
          /\ editValue' = <<>>
          /\ focused' = FALSE
          /\ lastEvent' = Event(<<"saveEdit">>, ReadOnlyChanges, <<>>, NoReq, TRUE)
          /\ UNCHANGED inflight
     ELSE IF ~HasRow(containerData, editingCell.id)
     THEN /\ focused' = (focused /\ keepFocus)
          /\ lastEvent' = Event(<<"saveEdit">>, "", <<>>, NoReq, TRUE)
          /\ UNCHANGED <<editingCell, editValue, inflight>>
     ELSE LET itemToUpdate == FindRow(containerData, editingCell.id)
              field == editingCell.field
              value == CoerceValue(field, editValue)
              patch == SupabaseUpdate(itemToUpdate, field, value)
              req == [kind |-> "saveEdit", id |-> itemToUpdate.id,
                      cell |-> editingCell, text |-> editValue,
                      updatedItem |-> [itemToUpdate EXCEPT ![field] = value],
                      patch |-> patch, rows |-> containerData]
          IN /\ inflight' = Append(inflight, req)
             /\ focused' = (focused /\ keepFocus)
             /\ lastEvent' = Event(<<"saveEdit">>, "",
                  <<[method |-> "update", id |-> itemToUpdate.id,
                     patch |-> patch]>>, NoReq, TRUE)
             /\ UNCHANGED <<editingCell, editValue>>

\* onKeyDown: e.key === 'Enter' && saveEdit()
PressEnter ==
  /\ focused
  /\ saveEdit(TRUE)

\* a blur that runs no handler
Blur_Mutant ==
  /\ focused
  /\ focused' = FALSE
  /\ ops' = ops + 1
  /\ lastEvent' = Event(<<"blur">>, "", <<>>, NoReq, TRUE)
  /\ UNCHANGED <<isReadOnly, previewModal, download, history, selectedContainer, containers, containerData,
                 editingCell, editValue, formVars, storeVars, inflight>>

\* onBlur={saveEdit}
Blur ==
  /\ focused
  /\ saveEdit(FALSE)

\* the catch blocks of the mutating handlers: console.error and alert, no
\* setContainerData, so the row list is the one on screen
FailedRows_Mutant(req) == <<>>

FailedRows(req) == containerData

\* containerItemService.update: the row must exist (.single())
CanUpdate(id) == \E r \in storeItems : r.id = id

StoreUpdate(id, patch) ==
  {IF r.id = id THEN PatchedRow(r, patch) ELSE r : r \in storeItems}

\* saveEdit: setContainerData(containerData.map(...)) of the captured list
SaveEditRows(req) ==
  [i \in DOMAIN req.rows |->
     IF req.rows[i].id = req.cell.id THEN req.updatedItem ELSE req.rows[i]]

\* saveEdit after its await
SaveEditDone(i, ok) ==
  LET req == inflight[i]
      rows2 == IF ok THEN SaveEditRows(req) ELSE FailedRows(req)
  IN /\ req.kind = "saveEdit"
     /\ ok => CanUpdate(req.id)
     /\ storeItems' = IF ok THEN StoreUpdate(req.id, req.patch) ELSE storeItems
     /\ containerData' = rows2
     /\ editingCell' = NoCell
     /\ editValue' = <<>>
     /\ focused' = FALSE
     /\ inflight' = RemoveAt(inflight, i)
     /\ lastEvent' = Event(<<"saveEdit.done">>,
          IF ok THEN "" ELSE "Failed to save changes. Please try again.",
          <<>>, req, ok)
     /\ UNCHANGED <<isReadOnly, previewModal, download, history, selectedContainer, containers, formVars,
                    storeContainers, nextId, ops>>

-----------------------------------------------------------------------------
(* The load effects *)

\* containerService.getAll().map(c => c.name)
LoadContainersDone(i, ok) ==
  LET req == inflight[i]
  IN /\ req.kind = "loadContainers"
     /\ containers' = IF ok THEN SortByName(storeContainers) ELSE containers
     /\ inflight' = RemoveAt(inflight, i)
     /\ lastEvent' = Event(<<"loadContainers.done">>, "", <<>>, req, ok)
     /\ UNCHANGED <<isReadOnly, previewModal, download, history, selectedContainer, containerData, uiVars,
                    formVars, storeVars, ops>>

\* containerItemService.getByContainer
GetByContainer(container) ==
  SortById({r \in storeItems : r.container_name = container})

\* loadContainerData after its await: the converted rows, or [] on failure
LoadContainerDataDone(i, ok) ==
  LET req == inflight[i]
      items == GetByContainer(req.container)
      rows2 == IF ok THEN [k \in DOMAIN items |-> ConvertLoaded(items[k])]
               ELSE <<>>
  IN /\ req.kind = "loadContainerData"
     /\ containerData' = rows2
     /\ focused' = FocusAfter(rows2, editingCell)
     /\ inflight' = RemoveAt(inflight, i)
     /\ lastEvent' = Event(<<"loadContainerData.done">>, "", <<>>, req, ok)
     /\ UNCHANGED <<isReadOnly, previewModal, download, history, selectedContainer, containers, editingCell,
                    editValue, formVars, storeVars, ops>>

-----------------------------------------------------------------------------
(* Row operations *)

\* containerItemService.create: the container must exist (foreign key) and
\* the store still has an id to hand out
CanCreate(item) == item.container_name \in storeContainers /\ nextId <= MaxId

\* addNewRow: [...containerData, convertedItem] of the captured list
AddNewRowRows_Mutant(req, created) == <<ConvertCreated(created)>> \o req.rows

AddNewRowRows(req, created) == Append(req.rows, ConvertCreated(created))

\* addNewRow up to its await
addNewRow ==
  /\ ~focused
  /\ ops' = ops + 1
  /\ IF ReadOnlyBlocks("addNewRow")
     THEN /\ lastEvent' = Event(<<"addNewRow">>, ReadOnlyChanges, <<>>, NoReq, TRUE)
          /\ UNCHANGED inflight
     ELSE LET newItem == NewItem(selectedContainer)
          IN /\ inflight' = Append(inflight,
                  [kind |-> "addNewRow", item |-> newItem, rows |-> containerData])
             /\ lastEvent' = Event(<<"addNewRow">>, "",
                  <<[method |-> "create", item |-> newItem]>>, NoReq, TRUE)
  /\ UNCHANGED <<isReadOnly, previewModal, download, history, selectedContainer, containers, containerData,
                 uiVars, formVars, storeVars>>

\* addNewRow after its await
AddNewRowDone(i, ok) ==
  LET req == inflight[i]
      created == InsertedRow(req.item, nextId)
      rows2 == IF ok THEN AddNewRowRows(req, created) ELSE FailedRows(req)
  IN /\ req.kind = "addNewRow"
     /\ ok => CanCreate(req.item)
     /\ storeItems' = IF ok THEN storeItems \cup {created} ELSE storeItems
     /\ nextId' = IF ok THEN nextId + 1 ELSE nextId
     /\ containerData' = rows2
     /\ focused' = FocusAfter(rows2, editingCell)
     /\ inflight' = RemoveAt(inflight, i)
     /\ lastEvent' = Event(<<"addNewRow.done">>,
          IF ok THEN "" ELSE "Failed to add new row. Please try again.",
          <<>>, req, ok)
     /\ UNCHANGED <<isReadOnly, previewModal, download, history, selectedContainer, containers, editingCell,
                    editValue, formVars, storeContainers, ops>>

\* updateStatus up to its await (the select's onChange: the value differs)
updateStatus(id, status) ==
  /\ ~focused
  /\ HasRow(containerData, id)
  /\ FindRow(containerData, id).status # status
  /\ ops' = ops + 1
  /\ IF ReadOnlyBlocks("updateStatus")
     THEN /\ lastEvent' = Event(<<"updateStatus">>, ReadOnlyChanges, <<>>, NoReq, TRUE)
          /\ UNCHANGED inflight
     ELSE LET patch == [c \in {"status"} |-> status]
          IN /\ inflight' = Append(inflight,
                  [kind |-> "updateStatus", id |-> id, status |-> status,
                   patch |-> patch, rows |-> containerData])
             /\ lastEvent' = Event(<<"updateStatus">>, "",
                  <<[method |-> "update", id |-> id, patch |-> patch]>>,
                  NoReq, TRUE)
  /\ UNCHANGED <<isReadOnly, previewModal, download, history, selectedContainer, containers, containerData,
                 uiVars, formVars, storeVars>>

\* updateStatus after its await
UpdateStatusDone(i, ok) ==
  LET req == inflight[i]
      rows2 == IF ok THEN SetField(req.rows, req.id, "status", req.status)
               ELSE FailedRows(req)
  IN /\ req.kind = "updateStatus"
     /\ ok => CanUpdate(req.id)
     /\ storeItems' = IF ok THEN StoreUpdate(req.id, req.patch) ELSE storeItems
     /\ containerData' = rows2
     /\ focused' = FocusAfter(rows2, editingCell)
     /\ inflight' = RemoveAt(inflight, i)
     /\ lastEvent' = Event(<<"updateStatus.done">>,
          IF ok THEN "" ELSE "Failed to update status. Please try again.",
          <<>>, req, ok)
     /\ UNCHANGED <<isReadOnly, previewModal, download, history, selectedContainer, containers, editingCell,
                    editValue, formVars, storeContainers, nextId, ops>>

\* the three onChange handlers that call setContainerData directly
\* (App.tsx:1229-1234, 1269-1273, 1292-1296)
ChangeLocally(handler, id, field, value) ==
  /\ ~focused
  /\ HasRow(containerData, id)
  /\ containerData' = SetField(containerData, id, field, value)
  /\ containerData' # containerData
  /\ ops' = ops + 1
  /\ lastEvent' = Event(<<handler>>, "", <<>>, NoReq, TRUE)
  /\ UNCHANGED <<isReadOnly, previewModal, download, history, selectedContainer, containers, uiVars, formVars,
                 storeVars, inflight>>

\* awaiting select: e.target.value === '-' ? ['-'] : [e.target.value]
ChangeAwaiting(id, v) ==
  ChangeLocally("awaiting.onChange", id, "awaiting",
                IF v = "-" THEN <<"-">> ELSE <<v>>)

\* production-ready date input
ChangeProductionReady(id, v) ==
  ChangeLocally("productionReady.onChange", id, "productionReady", v)

\* client select
ChangeClient(id, v) ==
  ChangeLocally("client.onChange", id, "client", v)

\* deleteRow: containerData.filter(...) of the captured list
DeleteRowRows_Mutant(req) == IF req.rows = <<>> THEN <<>> ELSE Tail(req.rows)

DeleteRowRows(req) == WithoutRow(req.rows, req.id)

\* deleteRow up to its await; confirmed is the answer to window.confirm
deleteRow(id, confirmed) ==
  /\ ~focused
  /\ HasRow(containerData, id)
  /\ ops' = ops + 1
  /\ IF ReadOnlyBlocks("deleteRow")
     THEN /\ lastEvent' = Event(<<"deleteRow">>,
               "Read-only mode: Cannot delete items", <<>>, NoReq, TRUE)
          /\ UNCHANGED inflight
     ELSE IF ~confirmed
     THEN /\ lastEvent' = Event(<<"deleteRow", "declined">>, "", <<>>, NoReq, TRUE)
          /\ UNCHANGED inflight
     ELSE /\ inflight' = Append(inflight,
               [kind |-> "deleteRow", id |-> id, rows |-> containerData])
          /\ lastEvent' = Event(<<"deleteRow", "confirmed">>, "",
               <<[method |-> "delete", id |-> id]>>, NoReq, TRUE)
  /\ UNCHANGED <<isReadOnly, previewModal, download, history, selectedContainer, containers, containerData,
                 uiVars, formVars, storeVars>>

\* containerItemService.delete
StoreDelete(id) == {r \in storeItems : r.id # id}

\* deleteRow after its await
DeleteRowDone(i, ok) ==
  LET req == inflight[i]
      rows2 == IF ok THEN DeleteRowRows(req) ELSE FailedRows(req)
  IN /\ req.kind = "deleteRow"
     /\ storeItems' = IF ok THEN StoreDelete(req.id) ELSE storeItems
     /\ containerData' = rows2
     /\ focused' = FocusAfter(rows2, editingCell)
     /\ inflight' = RemoveAt(inflight, i)
     /\ lastEvent' = Event(<<"deleteRow.done">>,
          IF ok THEN "" ELSE "Failed to delete item. Please try again.",
          <<>>, req, ok)
     /\ UNCHANGED <<isReadOnly, previewModal, download, history, selectedContainer, containers, editingCell,
                    editValue, formVars, storeContainers, nextId, ops>>

-----------------------------------------------------------------------------
(* Attachments *)

\* deleteAttachment up to its await (the button shows only on an attachment)
deleteAttachment(id, field, confirmed) ==
  /\ ~focused
  /\ HasRow(containerData, id)
  /\ FindRow(containerData, id)[field] # Undefined
  /\ ops' = ops + 1
  /\ IF ReadOnlyBlocks("deleteAttachment")
     THEN /\ lastEvent' = Event(<<"deleteAttachment">>,
               "Read-only mode: Cannot delete attachments", <<>>, NoReq, TRUE)
          /\ UNCHANGED inflight
     ELSE IF ~confirmed
     THEN /\ lastEvent' = Event(<<"deleteAttachment", "declined">>, "", <<>>,
               NoReq, TRUE)
          /\ UNCHANGED inflight
     ELSE LET patch == [c \in {supabaseFieldMap(field)} |-> Null]
          IN /\ inflight' = Append(inflight,
                  [kind |-> "deleteAttachment", id |-> id, field |-> field,
                   patch |-> patch, rows |-> containerData])
             /\ lastEvent' = Event(<<"deleteAttachment", "confirmed">>, "",
                  <<[method |-> "update", id |-> id, patch |-> patch]>>,
                  NoReq, TRUE)
  /\ UNCHANGED <<isReadOnly, previewModal, download, history, selectedContainer, containers, containerData,
                 uiVars, formVars, storeVars>>

\* a functional update, setContainerData(prev => prev.map(...)): it would
\* patch the list of the moment of the response, not the captured one
DeleteAttachmentRows_Mutant(req) ==
  SetField(containerData, req.id, req.field, Undefined)

\* deleteAttachment: containerData.map(... { ...item, [field]: undefined })
\* of the captured list
DeleteAttachmentRows(req) == SetField(req.rows, req.id, req.field, Undefined)

\* deleteAttachment after its await
DeleteAttachmentDone(i, ok) ==
  LET req == inflight[i]
      rows2 == IF ok THEN DeleteAttachmentRows(req) ELSE FailedRows(req)
  IN /\ req.kind = "deleteAttachment"
     /\ ok => CanUpdate(req.id)
     /\ storeItems' = IF ok THEN StoreUpdate(req.id, req.patch) ELSE storeItems
     /\ containerData' = rows2
     /\ focused' = FocusAfter(rows2, editingCell)
     /\ inflight' = RemoveAt(inflight, i)
     /\ lastEvent' = Event(<<"deleteAttachment.done">>,
          IF ok THEN "" ELSE "Failed to delete attachment. Please try again.",
          <<>>, req, ok)
     /\ UNCHANGED <<isReadOnly, previewModal, download, history, selectedContainer, containers, editingCell,
                    editValue, formVars, storeContainers, nextId, ops>>

\* URL.createObjectURL(file)
ObjectURL(file) == <<"blob", file.name>>

\* handleFileUpload up to reader.readAsDataURL(file)
handleFileUpload(id, field, file) ==
  /\ ~focused
  /\ HasRow(containerData, id)
  /\ ops' = ops + 1
  /\ IF ReadOnlyBlocks("handleFileUpload")
     THEN /\ lastEvent' = Event(<<"handleFileUpload">>,
               "Read-only mode: Cannot upload files", <<>>, NoReq, TRUE)
          /\ UNCHANGED <<containerData, inflight>>
     ELSE LET fileData == [url |-> ObjectURL(file), name |-> file.name]
          IN /\ containerData' = SetField(containerData, id, field, fileData)
             /\ inflight' = Append(inflight,
                  [kind |-> "upload", phase |-> "reading", id |-> id,
                   field |-> field, file |-> file])
             /\ lastEvent' = Event(<<"handleFileUpload">>, "", <<>>, NoReq, TRUE)
  /\ UNCHANGED <<isReadOnly, previewModal, download, history, selectedContainer, containers, uiVars, formVars,
                 storeVars>>

\* reader.onloadend up to its await: the update with the file metadata
UploadRead(i) ==
  LET req == inflight[i]
      fileMetadata == [name |-> req.file.name, type |-> req.file.type,
                       size |-> req.file.size, data |-> req.file.data]
      patch == [c \in {supabaseFieldMap(req.field)} |-> fileMetadata]
  IN /\ req.kind = "upload"
     /\ req.phase = "reading"
     /\ inflight' = [inflight EXCEPT ![i] =
          [kind |-> "upload", phase |-> "updating", id |-> req.id,
           field |-> req.field, file |-> req.file, patch |-> patch]]
     /\ lastEvent' = Event(<<"reader.onloadend">>, "",
          <<[method |-> "update", id |-> req.id, patch |-> patch]>>, NoReq, TRUE)
     /\ UNCHANGED <<isReadOnly, previewModal, download, history, selectedContainer, containers, containerData,
                    uiVars, formVars, storeVars, ops>>

\* reader.onloadend after its await: the save notification; a rejection is
\* caught by nothing
UploadDone(i, ok) ==
  LET req == inflight[i]
  IN /\ req.kind = "upload"
     /\ req.phase = "updating"
     /\ ok => CanUpdate(req.id)
     /\ storeItems' = IF ok THEN StoreUpdate(req.id, req.patch) ELSE storeItems
     /\ inflight' = RemoveAt(inflight, i)
     /\ lastEvent' = Event(IF ok THEN <<"upload.done", "setShowSaveNotification">>
                                 ELSE <<"upload.done">>, "", <<>>, req, ok)
     /\ UNCHANGED <<isReadOnly, previewModal, download, history, selectedContainer, containers, containerData,
                    uiVars, formVars, storeContainers, nextId, ops>>

-----------------------------------------------------------------------------
(* Containers *)

\* String.prototype.trim on a text given as tokens (" " is a blank token)
RECURSIVE TrimStart(_)
TrimStart(s) ==
  IF s # <<>> /\ Head(s) = " " THEN TrimStart(Tail(s)) ELSE s

RECURSIVE TrimEnd(_)
TrimEnd(s) ==
  IF s # <<>> /\ s[Len(s)] = " " THEN TrimEnd(SubSeq(s, 1, Len(s) - 1)) ELSE s

Trim(s) == TrimEnd(TrimStart(s))

\* the string a trimmed text stands for: the texts of the model hold at most
\* one token that is not blank, "" is the empty string
TextOf(s) == IF s = <<>> THEN "" ELSE s[1]

\* the dropdown entry's onClick: setSelectedContainer, then the effect of
\* [selectedContainer] issues the load
SelectContainer(c) ==
  /\ ~focused
  /\ c \in Range(containers)
  /\ c # selectedContainer
  /\ selectedContainer' = c
  /\ history' = PushState(history, c)
  /\ inflight' = Append(inflight, [kind |-> "loadContainerData", container |-> c])
  /\ ops' = ops + 1
  /\ lastEvent' = Event(<<"setSelectedContainer">>, "",
       <<[method |-> "getByContainer", container |-> c]>>, NoReq, TRUE)
  /\ UNCHANGED <<isReadOnly, previewModal, download, containers, containerData, uiVars, formVars,
                 storeVars>>

\* the back and forward buttons (d = -1, 1): the browser makes the entry
\* current, handlePopState reads its container parameter and selects the
\* container when the list has it; the effects of [selectedContainer] then
\* push the URL and issue the load
Navigate(d) ==
  LET at == history.at + d
      containerFromUrl == history.entries[at]
      moved == [history EXCEPT !.at = at]
  IN /\ at \in DOMAIN history.entries
     /\ ops' = ops + 1
     /\ IF /\ containerFromUrl # ""
           /\ containerFromUrl \in Range(containers)
           /\ containerFromUrl # selectedContainer
        THEN /\ selectedContainer' = containerFromUrl
             /\ history' = PushState(moved, containerFromUrl)
             /\ inflight' = Append(inflight,
                  [kind |-> "loadContainerData", container |-> containerFromUrl])
             /\ lastEvent' = Event(<<"popstate", containerFromUrl>>, "",
                  <<[method |-> "getByContainer",
                     container |-> containerFromUrl]>>, NoReq, TRUE)
        ELSE /\ history' = moved
             /\ lastEvent' = Event(<<"popstate", containerFromUrl>>, "", <<>>,
                                   NoReq, TRUE)
             /\ UNCHANGED <<selectedContainer, inflight>>
     /\ UNCHANGED <<isReadOnly, previewModal, download, containers, containerData, uiVars,
                    formVars, storeVars>>

\* the Add New Container input's onChange
SetNewContainerName(s) ==
  /\ ~focused
  /\ newContainerName' = s
  /\ newContainerName' # newContainerName
  /\ ops' = ops + 1
  /\ lastEvent' = Event(<<"setNewContainerName">>, "", <<>>, NoReq, TRUE)
  /\ UNCHANGED <<isReadOnly, previewModal, download, history, selectedContainer, containers, containerData,
                 uiVars, importMode, storeVars, inflight>>

\* newContainerName.trim() && !containers.includes(newContainerName.trim())
NameAccepted_Mutant(name, conts) == name # ""

NameAccepted(name, conts) == name # "" /\ name \notin Range(conts)

\* the modal's banner: Container "..." already exists
ConflictShown ==
  LET name == TextOf(Trim(newContainerName))
  IN name # "" /\ name \in Range(containers)

\* addNewContainer up to its await
addNewContainer ==
  /\ ~focused
  /\ ops' = ops + 1
  /\ IF ReadOnlyBlocks("addNewContainer")
     THEN /\ lastEvent' = Event(<<"addNewContainer">>, ReadOnlyChanges, <<>>,
               NoReq, TRUE)
          /\ UNCHANGED inflight
     ELSE LET newContainer == TextOf(Trim(newContainerName))
          IN IF NameAccepted(newContainer, containers)
             THEN /\ inflight' = Append(inflight,
                       [kind |-> "addNewContainer", name |-> newContainer,
                        conts |-> containers])
                  /\ lastEvent' = Event(<<"addNewContainer">>, "",
                       <<[method |-> "createContainer", name |-> newContainer]>>,
                       NoReq, TRUE)
             ELSE /\ lastEvent' = Event(<<"addNewContainer", "skipped">>, "",
                       <<>>, NoReq, TRUE)
                  /\ UNCHANGED inflight
  /\ UNCHANGED <<isReadOnly, previewModal, download, history, selectedContainer, containers, containerData,
                 uiVars, formVars, storeVars>>

\* setContainers([...containers, newContainer]) of the captured list
AddNewContainerList_Mutant(req) == req.conts

AddNewContainerList(req) == Append(req.conts, req.name)

\* addNewContainer after its await; the store's name column is UNIQUE
AddNewContainerDone(i, ok) ==
  LET req == inflight[i]
  IN /\ req.kind = "addNewContainer"
     /\ ok => req.name \notin storeContainers
     /\ inflight' =
          IF ok /\ req.name # selectedContainer
          THEN Append(RemoveAt(inflight, i),
                      [kind |-> "loadContainerData", container |-> req.name])
          ELSE RemoveAt(inflight, i)
     /\ lastEvent' = Event(<<"addNewContainer.done">>,
          IF ok THEN "" ELSE "Failed to create container. Please try again.",
          IF ok /\ req.name # selectedContainer
          THEN <<[method |-> "getByContainer", container |-> req.name]>>
          ELSE <<>>,
          req, ok)
     /\ IF ok
        THEN /\ storeContainers' = storeContainers \cup {req.name}
             /\ containers' = AddNewContainerList(req)
             /\ selectedContainer' = req.name
             /\ history' = IF req.name # selectedContainer
                           THEN PushState(history, req.name) ELSE history
             /\ containerData' = <<>>
             /\ newContainerName' = <<>>
             /\ focused' = FALSE
        ELSE UNCHANGED <<storeContainers, containers, selectedContainer,
                         history, containerData, newContainerName, focused>>
     /\ UNCHANGED <<isReadOnly, previewModal, download, editingCell, editValue, importMode,
                    storeItems, nextId, ops>>

-----------------------------------------------------------------------------
(* Import.  A sheet is the sequence of row objects sheet_to_json returns: a *)
(* function from the headers the row has a cell for to the cell's value.    *)
(* Reference Code, Ref, Supplier and the numeric cells hold tagged values,  *)
(* Status, Client and Production Ready hold strings, Awaiting holds the     *)
(* tokens of its text ("," is the separator token).                         *)

\* parseInt(string): leading whitespace, optional sign, digits
parseInt(s) ==
  LET i0 == SkipSpaces(s, 1)
      neg == i0 <= Len(s) /\ s[i0] = "-"
      i1 == IF i0 <= Len(s) /\ s[i0] \in {"-", "+"} THEN i0 + 1 ELSE i0
      nInt == DigitRun(s, i1)
      mag == DigitsValue(s, i1, nInt) * Scale
  IN IF nInt = 0 THEN NaN ELSE Num(IF neg THEN 0 - mag ELSE mag)

\* String(row[h]): an absent cell reads as undefined
CellChars(row, h) ==
  IF h \in DOMAIN row THEN String(row[h]) ELSE <<"undefined">>

\* row[h1] || row[h2] || ''
FirstCell(row, hs) ==
  LET RECURSIVE Pick(_)
      Pick(k) ==
        IF k > Len(hs) THEN Str(<<>>)
        ELSE IF hs[k] \in DOMAIN row /\ Truthy(row[hs[k]]) THEN row[hs[k]]
        ELSE Pick(k + 1)
  IN Pick(1)

\* row[h] || dflt, for the cells held as plain strings
StringCell(row, h, dflt) ==
  IF h \in DOMAIN row /\ row[h] # "" THEN row[h] ELSE dflt

\* text.split(',')
RECURSIVE SplitComma(_, _)
SplitComma(s, cur) ==
  IF s = <<>> THEN <<cur>>
  ELSE IF Head(s) = "," THEN <<cur>> \o SplitComma(Tail(s), <<>>)
  ELSE SplitComma(Tail(s), Append(cur, Head(s)))

\* (row['Awaiting'] as string).split(',').map(s => s.trim())
SplitTags(s) ==
  LET parts == SplitComma(s, <<>>)
  IN [k \in DOMAIN parts |-> TextOf(Trim(parts[k]))]

\* importFromExcel: newItem
ImportItem(row, container) ==
  [container_name |-> container,
   reference_code |-> FirstCell(row, <<"Reference Code", "Ref">>),
   supplier |-> FirstCell(row, <<"Supplier">>),
   cbm |-> OrZero(parseFloat(CellChars(row, "CBM"))),
   cartons |-> OrZero(parseInt(CellChars(row, "Cartons"))),
   gross_weight |-> OrZero(parseFloat(CellChars(row, "Gross Weight"))),
   product_cost |-> OrZero(parseFloat(CellChars(row, "Product Cost"))),
   freight_cost |-> OrZero(parseFloat(CellChars(row, "Freight Cost"))),
   status |-> StringCell(row, "Status", "Pending"),
   awaiting |-> IF "Awaiting" \in DOMAIN row /\ row["Awaiting"] # <<>>
                THEN SplitTags(row["Awaiting"]) ELSE <<"-">>,
   production_days |-> OrZero(parseInt(CellChars(row, "Production Days"))),
   production_ready |-> StringCell(row, "Production Ready", ""),
   client |-> StringCell(row, "Client", "")]

\* the import modal's radio buttons
SetImportMode(m) ==
  /\ ~focused
  /\ importMode' = m
  /\ importMode' # importMode
  /\ ops' = ops + 1
  /\ lastEvent' = Event(<<"setImportMode">>, "", <<>>, NoReq, TRUE)
  /\ UNCHANGED <<isReadOnly, previewModal, download, history, selectedContainer, containers, containerData,
                 uiVars, newContainerName, storeVars, inflight>>

\* importFromExcel up to reader.readAsArrayBuffer(file).  The request also
\* records whether no request on the rows was in flight when it started
\* (quiet) and, when the step before it completed an import, that import's
\* sheet and mode and the store's rows it left (after).
importFromExcel(sheet) ==
  /\ ~focused
  /\ ops' = ops + 1
  /\ IF ReadOnlyBlocks("importFromExcel")
     THEN /\ lastEvent' = Event(<<"importFromExcel">>,
               "Read-only mode: Cannot import data", <<>>, NoReq, TRUE)
          /\ UNCHANGED inflight
     ELSE /\ inflight' = Append(inflight,
               [kind |-> "import", phase |-> "reading", mode |-> importMode,
                container |-> selectedContainer, rows |-> containerData,
                sheet |-> sheet, p |-> 0, created |-> <<>>,
                quiet |-> \A i \in DOMAIN inflight :
                             inflight[i].kind = "loadContainers",
                after |-> IF lastEvent.handlers = <<"import.step", "import.done">>
                          THEN [sheet |-> lastEvent.done.sheet,
                                mode |-> lastEvent.done.mode,
                                items |-> storeItems]
                          ELSE [sheet |-> <<>>]])
          /\ lastEvent' = Event(<<"importFromExcel">>, "", <<>>, NoReq, TRUE)
  /\ UNCHANGED <<isReadOnly, previewModal, download, history, selectedContainer, containers, containerData,
                 uiVars, formVars, storeVars>>

\* the calls of one import, in order: the deletes of replace mode, then one
\* create per sheet row
ImportDeletes(req) == IF req.mode = "replace" THEN Len(req.rows) ELSE 0

ImportCalls(req) == ImportDeletes(req) + Len(req.sheet)

\* an import that creates before it deletes
ImportCall_Mutant(req) ==
  IF req.p < Len(req.sheet)
  THEN [method |-> "create",
        item |-> ImportItem(req.sheet[req.p + 1], req.container)]
  ELSE [method |-> "delete", id |-> req.rows[req.p - Len(req.sheet) + 1].id]

\* the call the import is at once req.p calls have completed
ImportCall(req) ==
  IF req.p < ImportDeletes(req)
  THEN [method |-> "delete", id |-> req.rows[req.p + 1].id]
  ELSE [method |-> "create",
        item |-> ImportItem(req.sheet[req.p - ImportDeletes(req) + 1],
                            req.container)]

\* an import that appends in both modes
ImportRows_Mutant(req, createdItems) == req.rows \o createdItems

\* importFromExcel: "Update local state"
ImportRows(req, createdItems) ==
  IF req.mode = "replace" THEN createdItems ELSE req.rows \o createdItems

\* reader.onload: the import runs on from request req2, which has completed
\* req2.p calls: it issues the next call, or sets the row list and ends
ImportGoOn(i, req2, handler, done) ==
  IF req2.p < ImportCalls(req2)
  THEN /\ inflight' = [inflight EXCEPT ![i] = req2]
       /\ lastEvent' = Event(<<handler>>, "", <<ImportCall(req2)>>, done, TRUE)
       /\ UNCHANGED <<containerData, focused>>
  ELSE /\ inflight' = RemoveAt(inflight, i)
       /\ containerData' = ImportRows(req2, req2.created)
       /\ focused' = FocusAfter(containerData', editingCell)
       /\ lastEvent' = Event(<<handler, "import.done">>, "", <<>>, done, TRUE)

\* reader.onload up to its first await
ImportRead(i) ==
  LET req == inflight[i]
  IN /\ req.kind = "import"
     /\ req.phase = "reading"
     /\ ImportGoOn(i, [req EXCEPT !.phase = "calling"], "reader.onload",
                   NoReq)
     /\ UNCHANGED <<isReadOnly, previewModal, download, history, selectedContainer, containers, editingCell,
                    editValue, formVars, storeVars, ops>>

\* reader.onload after the await of call number req.p + 1
ImportStep(i, ok) ==
  LET req == inflight[i]
      call == ImportCall(req)
      created == InsertedRow(call.item, nextId)
  IN /\ req.kind = "import"
     /\ req.phase = "calling"
     /\ (ok /\ call.method = "create") => CanCreate(call.item)
     /\ UNCHANGED <<isReadOnly, previewModal, download, history, selectedContainer, containers, editingCell,
                    editValue, formVars, storeContainers, ops>>
     /\ IF ~ok
        THEN /\ inflight' = RemoveAt(inflight, i)
             /\ lastEvent' = Event(<<"import.failed">>,
                  "Failed to import data. Please try again.", <<>>, req, FALSE)
             /\ containerData' = FailedRows(req)
             /\ focused' = FocusAfter(containerData', editingCell)
             /\ UNCHANGED <<storeItems, nextId>>
        ELSE IF call.method = "delete"
        THEN /\ storeItems' = StoreDelete(call.id)
             /\ UNCHANGED nextId
             /\ ImportGoOn(i, [req EXCEPT !.p = req.p + 1], "import.step",
                           req)
        ELSE /\ storeItems' = storeItems \cup {created}
             /\ nextId' = nextId + 1
             /\ ImportGoOn(i, [req EXCEPT !.p = req.p + 1,
                                  !.created = Append(req.created,
                                                     ConvertImported(created))],
                           "import.step", req)

-----------------------------------------------------------------------------
(* Export.  The workbook is held as the sequence of row objects that        *)
(* sheet_to_json reads back from its first sheet.                           *)

\* item.awaiting.join(', ')
RECURSIVE JoinTags(_)
JoinTags(tags) ==
  IF tags = <<>> THEN <<>>
  ELSE IF Len(tags) = 1 THEN <<tags[1]>>
  ELSE <<tags[1], ",", " ">> \o JoinTags(Tail(tags))

\* exportToExcel: one entry of exportData
ExportRow(item) ==
  ("Reference Code" :> item.referenceCode) @@ ("Supplier" :> item.supplier) @@
  ("CBM" :> item.cbm) @@ ("Cartons" :> item.cartons) @@
  ("Gross Weight" :> item.grossWeight) @@
  ("Product Cost" :> item.productCost) @@
  ("Freight Cost" :> item.freightCost) @@
  ("Awaiting" :> JoinTags(item.awaiting)) @@
  ("Production Days" :> item.productionDays) @@
  ("Production Ready" :> item.productionReady) @@
  ("Status" :> item.status) @@ ("Client" :> item.client)

\* the labels of the summary boxes, in column A below the data
SummaryLabels == <<"Total CBM:", "Total Cost:", "CBM Ready to Ship:">>

\* the summary rows as read back: the label is the cell of the first column
\* (whose header cell is empty when there is no data row), the formula cell
\* beside it has no value, the two blank rows above are skipped
SummaryRows(rows) ==
  LET header == IF rows = <<>> THEN "__EMPTY" ELSE "Reference Code"
  IN [k \in DOMAIN SummaryLabels |-> (header :> Str(<<SummaryLabels[k]>>))]

\* the first sheet of the workbook: json_to_sheet(exportData), then the
\* summary boxes, with !ref extended over them
ExportedSheet(rows) ==
  [k \in DOMAIN rows |-> ExportRow(rows[k])] \o SummaryRows(rows)

\* the attachment fields in the order of the export loop
ExportAttachments ==
  <<"packingList", "commercialInvoice", "payment", "hbl", "certificates">>

\* exportToExcel: "Check if there are any attachments"
HasAttachments(rows) ==
  \E k \in DOMAIN rows, f \in AttachmentFields : rows[k][f] # Undefined

AlphaNumerics ==
  {"a", "b", "c", "d", "e", "f", "g", "h", "i", "j", "k", "l", "m", "n", "o",
   "p", "q", "r", "s", "t", "u", "v", "w", "x", "y", "z", "A", "B", "C", "D",
   "E", "F", "G", "H", "I", "J", "K", "L", "M", "N", "O", "P", "Q", "R", "S",
   "T", "U", "V", "W", "X", "Y", "Z"} \cup Range(Digits)

\* item.referenceCode.replace(/[^a-zA-Z0-9]/g, '_')
FolderName(item) ==
  LET s == item.referenceCode.v
  IN [k \in DOMAIN s |-> IF s[k] \in AlphaNumerics THEN s[k] ELSE "_"]

\* the attachments the export loop fetches, in order: the rows in list
\* order that have a reference code, the fields in the loop's order
RECURSIVE ExportTodo(_, _, _)
ExportTodo(rows, k, j) ==
  IF k > Len(rows) THEN <<>>
  ELSE IF j > Len(ExportAttachments) THEN ExportTodo(rows, k + 1, 1)
  ELSE (IF Truthy(rows[k].referenceCode)
           /\ rows[k][ExportAttachments[j]] # Undefined
        THEN <<[row |-> k, field |-> ExportAttachments[j]]>>
        ELSE <<>>) \o ExportTodo(rows, k, j + 1)

\* zip.folder(folderName) of every row that has a reference code
ExportFolders(rows) ==
  {FolderName(rows[k]) : k \in {j \in DOMAIN rows : Truthy(rows[j].referenceCode)}}

\* folder.file(fileName, fileContent): a file of that name in that folder
\* is replaced
AddFile(files, entry) ==
  {x \in files : x.folder # entry.folder \/ x.name # entry.name} \cup {entry}

\* `${selectedContainer} CBM & PI.xlsx`
WorkbookName(container) == <<container, " CBM & PI.xlsx">>

\* exportToExcel up to the download of the plain workbook or to
\* await import('jszip').  The request also records the outcome of every
\* fetch answered so far (oks).
exportToExcel ==
  /\ ~focused
  /\ ops' = ops + 1
  /\ IF ~HasAttachments(containerData)
     THEN /\ download' = [kind |-> "xlsx",
                          name |-> WorkbookName(selectedContainer),
                          workbooks |-> {WorkbookName(selectedContainer)},
                          sheet |-> ExportedSheet(containerData),
                          folders |-> {}, files |-> {},
                          rows |-> containerData]
          /\ lastEvent' = Event(<<"exportToExcel", "download">>, "", <<>>,
                                NoReq, TRUE)
          /\ UNCHANGED inflight
     ELSE /\ inflight' = Append(inflight,
               [kind |-> "export", phase |-> "loading",
                container |-> selectedContainer, rows |-> containerData,
                todo |-> ExportTodo(containerData, 1, 1), p |-> 0,
                files |-> {}, oks |-> <<>>])
          /\ lastEvent' = Event(<<"exportToExcel">>, "", <<>>, NoReq, TRUE)
          /\ UNCHANGED download
  /\ UNCHANGED <<isReadOnly, previewModal, history, selectedContainer, containers, containerData,
                 uiVars, formVars, storeVars>>

\* exportToExcel runs on from request req2: it fetches the next attachment,
\* or awaits zip.generateAsync
ExportGoOn(i, req2, handler, done, ok) ==
  IF req2.p < Len(req2.todo)
  THEN /\ inflight' = [inflight EXCEPT ![i] = [req2 EXCEPT !.phase = "fetching"]]
       /\ lastEvent' = Event(<<handler>>, "",
            <<[method |-> "fetch",
               url |-> req2.rows[req2.todo[req2.p + 1].row]
                                [req2.todo[req2.p + 1].field].url]>>,
            done, ok)
  ELSE /\ inflight' = [inflight EXCEPT ![i] = [req2 EXCEPT !.phase = "zipping"]]
       /\ lastEvent' = Event(<<handler>>, "", <<>>, done, ok)

\* exportToExcel after await import('jszip'): new JSZip(), the workbook is
\* added, the loop over the rows starts
ExportLoaded(i) ==
  LET req == inflight[i]
  IN /\ req.kind = "export"
     /\ req.phase = "loading"
     /\ ExportGoOn(i, req, "export.loaded", NoReq, TRUE)
     /\ UNCHANGED <<isReadOnly, previewModal, download, history, selectedContainer, containers,
                    containerData, uiVars, formVars, storeVars, ops>>

\* an export whose failed fetch empties the archive's folders
FetchedFiles_Mutant(req, entry, ok) ==
  IF ok THEN AddFile(req.files, entry) ELSE {}

\* the files of the folders after a fetch: the catch only skips the file
FetchedFiles(req, entry, ok) ==
  IF ok THEN AddFile(req.files, entry) ELSE req.files

\* exportToExcel after the fetch of attachment number req.p + 1: the file is
\* added to the row's folder, or the catch skips it
ExportFetch(i, ok) ==
  LET req == inflight[i]
      at == req.todo[req.p + 1]
      item == req.rows[at.row]
      entry == [folder |-> FolderName(item), name |-> item[at.field].name,
                url |-> item[at.field].url]
  IN /\ req.kind = "export"
     /\ req.phase = "fetching"
     /\ ExportGoOn(i, [req EXCEPT !.p = req.p + 1,
                                  !.files = FetchedFiles(req, entry, ok),
                                  !.oks = Append(req.oks, ok)],
                   "export.fetched", req, ok)
     /\ UNCHANGED <<isReadOnly, previewModal, download, history, selectedContainer, containers,
                    containerData, uiVars, formVars, storeVars, ops>>

\* exportToExcel after await zip.generateAsync: the zip is downloaded
ExportZip(i) ==
  LET req == inflight[i]
  IN /\ req.kind = "export"
     /\ req.phase = "zipping"
     /\ download' = [kind |-> "zip",
                     name |-> <<req.container, " CBM & PI.zip">>,
                     workbooks |-> {WorkbookName(req.container)},
                     sheet |-> ExportedSheet(req.rows),
                     folders |-> ExportFolders(req.rows), files |-> req.files,
                     rows |-> req.rows]
     /\ inflight' = RemoveAt(inflight, i)
     /\ lastEvent' = Event(<<"export.zipped", "download">>, "", <<>>, req, TRUE)
     /\ UNCHANGED <<isReadOnly, previewModal, history, selectedContainer, containers,
                    containerData, uiVars, formVars, storeVars, ops>>

-----------------------------------------------------------------------------
(* Specification of the cell edit controller *)

TypedTexts ==
  {<<>>, <<"a", "b", "c">>, <<"1", ".", "5">>, <<"7", "x">>, <<".">>}

EditSpecFields == {"referenceCode", "cbm", "cartons"}

InitEdit == InitWith(BOOLEAN, {SeededStore})

NextEdit ==
  \/ \E id \in 1..MaxId, f \in EditSpecFields :
        ops < MaxOpsEdit /\ ClickCell(id, f)
  \/ \E s \in TypedTexts : ops < MaxOpsEdit /\ TypeValue(s)
  \/ ops < MaxOpsEdit /\ PressEnter
  \/ ops < MaxOpsEdit /\ Blur
  \/ \E i \in DOMAIN inflight, ok \in BOOLEAN : SaveEditDone(i, ok)
  \/ \E i \in DOMAIN inflight, ok \in BOOLEAN : LoadContainersDone(i, ok)
  \/ \E i \in DOMAIN inflight, ok \in BOOLEAN : LoadContainerDataDone(i, ok)
  \/ \E id \in 1..MaxId : ops < MaxOpsEdit /\ updateStatus(id, "Need Payment")
  \/ \E i \in DOMAIN inflight, ok \in BOOLEAN : UpdateStatusDone(i, ok)
  \/ \E id \in 1..MaxId : ops < MaxOpsEdit /\ deleteRow(id, TRUE)
  \/ \E i \in DOMAIN inflight, ok \in BOOLEAN : DeleteRowDone(i, ok)

SpecEdit == InitEdit /\ [][NextEdit]_vars

-----------------------------------------------------------------------------
(* Specification of the row operations *)

AwaitingOptions == {"-", "Payment", "Customs"}

ClientOptions == {"", "Pitoulis AE", "AgroTech Ltd"}

DateInputs == {"", "2025-01-31"}

InitRows == InitWith(BOOLEAN, {EmptyStore, SeededStore})

NextRows ==
  \/ \E i \in DOMAIN inflight, ok \in BOOLEAN : LoadContainersDone(i, ok)
  \/ \E i \in DOMAIN inflight, ok \in BOOLEAN : LoadContainerDataDone(i, ok)
  \/ ops < MaxOpsRows /\ addNewRow
  \/ \E i \in DOMAIN inflight, ok \in BOOLEAN : AddNewRowDone(i, ok)
  \/ \E id \in 1..MaxId, st \in Statuses :
        ops < MaxOpsRows /\ updateStatus(id, st)
  \/ \E i \in DOMAIN inflight, ok \in BOOLEAN : UpdateStatusDone(i, ok)
  \/ \E id \in 1..MaxId, v \in AwaitingOptions :
        ops < MaxOpsRows /\ ChangeAwaiting(id, v)
  \/ \E id \in 1..MaxId, v \in DateInputs :
        ops < MaxOpsRows /\ ChangeProductionReady(id, v)
  \/ \E id \in 1..MaxId, v \in ClientOptions :
        ops < MaxOpsRows /\ ChangeClient(id, v)
  \/ \E id \in 1..MaxId, c \in BOOLEAN : ops < MaxOpsRows /\ deleteRow(id, c)
  \/ \E i \in DOMAIN inflight, ok \in BOOLEAN : DeleteRowDone(i, ok)
  \/ \E c \in {"I110.11 SOUTH", "I269.1"} :
        ops < MaxOpsRows /\ SelectContainer(c)

SpecRows == InitRows /\ [][NextRows]_vars

-----------------------------------------------------------------------------
(* Specification of the whole component *)

TestFile ==
  [name |-> "doc.pdf", type |-> "application/pdf", size |-> 4,
   data |-> "data:application/pdf;base64,JVBE"]

Sheets ==
  {<<("Reference Code" :> Str(<<"X">>)) @@ ("CBM" :> Num(150)) @@
     ("Status" :> "Ready to Ship") @@
     ("Awaiting" :> <<"Payment", ",", " ", "Customs">>)>>,
   <<("Ref" :> Str(<<"Y">>)) @@ ("CBM" :> Str(<<"a">>)) @@
     ("Status" :> "Shipped"),
     ("Supplier" :> Str(<<"S">>)) @@ ("Cartons" :> Str(<<"1", "2", ".", "5">>))>>}

TypedNames == {<<" ", "I300", " ">>, <<"I269.1">>, <<" ">>}

Next ==
  \/ \E id \in 1..MaxId, f \in {"referenceCode", "cbm"} :
        ops < MaxOps /\ ClickCell(id, f)
  \/ \E s \in {<<"a", "b", "c">>, <<"1", ".", "5">>} :
        ops < MaxOps /\ TypeValue(s)
  \/ ops < MaxOps /\ PressEnter
  \/ ops < MaxOps /\ Blur
  \/ \E i \in DOMAIN inflight, ok \in BOOLEAN : SaveEditDone(i, ok)
  \/ \E i \in DOMAIN inflight, ok \in BOOLEAN : LoadContainersDone(i, ok)
  \/ \E i \in DOMAIN inflight, ok \in BOOLEAN : LoadContainerDataDone(i, ok)
  \/ ops < MaxOps /\ addNewRow
  \/ \E i \in DOMAIN inflight, ok \in BOOLEAN : AddNewRowDone(i, ok)
  \/ \E id \in 1..MaxId : ops < MaxOps /\ updateStatus(id, "Ready to Ship")
  \/ \E i \in DOMAIN inflight, ok \in BOOLEAN : UpdateStatusDone(i, ok)
  \/ \E id \in 1..MaxId : ops < MaxOps /\ ChangeAwaiting(id, "Payment")
  \/ \E id \in 1..MaxId : ops < MaxOps /\ ChangeProductionReady(id, "2025-01-31")
  \/ \E id \in 1..MaxId : ops < MaxOps /\ ChangeClient(id, "Pitoulis AE")
  \/ \E id \in 1..MaxId, c \in BOOLEAN : ops < MaxOps /\ deleteRow(id, c)
  \/ \E i \in DOMAIN inflight, ok \in BOOLEAN : DeleteRowDone(i, ok)
  \/ \E id \in 1..MaxId, f \in AttachmentFields, c \in BOOLEAN :
        ops < MaxOps /\ deleteAttachment(id, f, c)
  \/ \E i \in DOMAIN inflight, ok \in BOOLEAN : DeleteAttachmentDone(i, ok)
  \/ \E id \in 1..MaxId :
        ops < MaxOps /\ handleFileUpload(id, "commercialInvoice", TestFile)
  \/ \E i \in DOMAIN inflight : UploadRead(i)
  \/ \E i \in DOMAIN inflight, ok \in BOOLEAN : UploadDone(i, ok)
  \/ \E c \in Range(containers) : ops < MaxOps /\ SelectContainer(c)
  \/ \E s \in TypedNames : ops < MaxOps /\ SetNewContainerName(s)
  \/ ops < MaxOps /\ addNewContainer
  \/ \E i \in DOMAIN inflight, ok \in BOOLEAN : AddNewContainerDone(i, ok)
  \/ \E m \in {"add", "replace"} : ops < MaxOps /\ SetImportMode(m)
  \/ \E sh \in Sheets : ops < MaxOps /\ importFromExcel(sh)
  \/ \E i \in DOMAIN inflight : ImportRead(i)
  \/ \E i \in DOMAIN inflight, ok \in BOOLEAN : ImportStep(i, ok)

Spec == Init /\ [][Next]_vars

-----------------------------------------------------------------------------
(* Specification of the operations that change rows of the selected        *)
(* container: add row, cell edit, status, awaiting, date, client, delete   *)

InitSync == InitWith({FALSE}, {EmptyStore, SeededStore})

NextSync ==
  \/ \E i \in DOMAIN inflight, ok \in BOOLEAN : LoadContainersDone(i, ok)
  \/ \E i \in DOMAIN inflight, ok \in BOOLEAN : LoadContainerDataDone(i, ok)
  \/ ops < MaxOpsRows /\ addNewRow
  \/ \E i \in DOMAIN inflight, ok \in BOOLEAN : AddNewRowDone(i, ok)
  \/ \E id \in 1..MaxId, f \in EditSpecFields :
        ops < MaxOpsRows /\ ClickCell(id, f)
  \/ \E s \in TypedTexts : ops < MaxOpsRows /\ TypeValue(s)
  \/ ops < MaxOpsRows /\ PressEnter
  \/ ops < MaxOpsRows /\ Blur
  \/ \E i \in DOMAIN inflight, ok \in BOOLEAN : SaveEditDone(i, ok)
  \/ \E id \in 1..MaxId, st \in Statuses :
        ops < MaxOpsRows /\ updateStatus(id, st)
  \/ \E i \in DOMAIN inflight, ok \in BOOLEAN : UpdateStatusDone(i, ok)
  \/ \E id \in 1..MaxId, v \in AwaitingOptions :
        ops < MaxOpsRows /\ ChangeAwaiting(id, v)
  \/ \E id \in 1..MaxId, v \in DateInputs :
        ops < MaxOpsRows /\ ChangeProductionReady(id, v)
  \/ \E id \in 1..MaxId, v \in ClientOptions :
        ops < MaxOpsRows /\ ChangeClient(id, v)
  \/ \E id \in 1..MaxId : ops < MaxOpsRows /\ deleteRow(id, TRUE)
  \/ \E i \in DOMAIN inflight, ok \in BOOLEAN : DeleteRowDone(i, ok)

SpecSync == InitSync /\ [][NextSync]_vars

-----------------------------------------------------------------------------
(* Properties.  They read the record of the last step: lastEvent.rows,     *)
(* lastEvent.conts, lastEvent.cell and lastEvent.items are the row list,   *)
(* the container list, the active cell and the store's rows before the     *)
(* step; lastEvent.done is the request whose response the step consumed.   *)

Handler == lastEvent.handlers[1]

Quiescent == inflight = <<>>

PlainNames ==
  {"id", "referenceCode", "supplier", "cbm", "cartons", "grossWeight",
   "productCost", "freightCost", "status", "awaiting", "productionDays",
   "productionReady", "client"}

\* the id and the non-attachment fields of a local row
PlainOf(row) == [f \in PlainNames |-> row[f]]

\* the store column a field is loaded from: the load conversion applied to
\* a row whose every column holds its own name
ColumnOf(field) == PlainFields([c \in StoreColumns |-> c])[field]

MutatingMethods == {"create", "createContainer", "update", "delete"}

SendsMutation ==
  \E k \in DOMAIN lastEvent.calls : lastEvent.calls[k].method \in MutatingMethods

\* C1: in every quiescent state reached by successful add-row, edit-commit,
\* status, awaiting-tag, production-ready-date, client and delete-row
\* operations on the selected container, the local row list has the same
\* row ids and the same non-attachment field values as the store's rows for
\* that container.
C1_TableMatchesStore ==
  (Quiescent /\ lastEvent.clean) =>
     LET items == GetByContainer(selectedContainer)
     IN [k \in DOMAIN containerData |-> PlainOf(containerData[k])] =
          [k \in DOMAIN items |-> PlainFields(items[k])]

MutatingKinds ==
  {"addNewRow", "addNewContainer", "saveEdit", "updateStatus", "deleteRow",
   "deleteAttachment", "import"}

\* C2: when the remote call of add row, add container, edit commit, status
\* update, delete row, delete attachment or import fails, the step that
\* handles the failure leaves the row list and the container list as they
\* were and shows an alert; the step that sent the call left them as they
\* were too.
C2_FailureLeavesListsUntouched ==
  /\ (lastEvent.done.kind \in MutatingKinds /\ ~lastEvent.ok) =>
        /\ containerData = lastEvent.rows
        /\ containers = lastEvent.conts
        /\ lastEvent.alert # ""
  /\ SendsMutation =>
        /\ containerData = lastEvent.rows
        /\ containers = lastEvent.conts

\* an import fails after one of its creates has succeeded, on a table that
\* shows rows
C2_Witness ==
  /\ lastEvent.done.kind = "import"
  /\ ~lastEvent.ok
  /\ Len(lastEvent.done.created) >= 1
  /\ containerData # <<>>
  /\ lastEvent.alert = "Failed to import data. Please try again."

\* C3: changing a row's status, awaiting tag, production-ready date or
\* client sends one patch update carrying exactly that field for that row
\* id, and the local row is not changed by the step that sends it.
C3_PatchUpdatePattern ==
  (~isReadOnly /\ Handler \in {"updateStatus", "awaiting.onChange",
                               "productionReady.onChange", "client.onChange"}) =>
     /\ Len(lastEvent.calls) = 1
     /\ lastEvent.calls[1].method = "update"
     /\ Cardinality(DOMAIN lastEvent.calls[1].patch) = 1
     /\ containerData = lastEvent.rows

ReadOnlyNotices ==
  {"Read-only mode: Changes are not allowed on this deployment.",
   "Read-only mode: Cannot delete items",
   "Read-only mode: Cannot upload files",
   "Read-only mode: Cannot delete attachments",
   "Read-only mode: Cannot import data"}

\* C4: with the read-only flag set, add row, edit commit, delete row, status
\* change, attachment upload, attachment delete and import each leave the
\* row list as it was, show a notice and send no call; no request of theirs
\* is ever in flight.
C4_ReadOnlyShortCircuits ==
  isReadOnly =>
     /\ Handler \in {"addNewRow", "saveEdit", "deleteRow", "updateStatus",
                     "handleFileUpload", "deleteAttachment",
                     "importFromExcel"} =>
           /\ containerData = lastEvent.rows
           /\ lastEvent.alert \in ReadOnlyNotices
           /\ lastEvent.calls = <<>>
     /\ \A i \in DOMAIN inflight :
           inflight[i].kind \in {"loadContainers", "loadContainerData"}

\* an import is refused in read-only mode on a table that shows rows
C4_Witness ==
  /\ isReadOnly
  /\ Handler = "importFromExcel"
  /\ lastEvent.alert = "Read-only mode: Cannot import data"
  /\ containerData # <<>>
  /\ containerData = lastEvent.rows

\* C5: while the read-only flag is set no user action changes the row list
\* or the container list, and no create, update or delete is sent.
C5_ReadOnlyDisablesEveryEntryPoint ==
  isReadOnly =>
     /\ lastEvent.done.kind = "none" =>
           /\ containerData = lastEvent.rows
           /\ containers = lastEvent.conts
     /\ ~SendsMutation

\* the all-default values of a local row and of a store row
IsDefaultRow(row) ==
  /\ row.status = "Pending"
  /\ row.awaiting = <<"-">>
  /\ \A f \in {"cbm", "cartons", "grossWeight", "productCost", "freightCost",
               "productionDays"} : row[f] = Num(0)
  /\ \A f \in {"referenceCode", "supplier"} : row[f] = Str(<<>>)
  /\ row.productionReady = ""
  /\ row.client = ""
  /\ \A f \in AttachmentFields : row[f] = Undefined

IsDefaultStoreRow(r) ==
  /\ r.status = "Pending"
  /\ r.awaiting = <<"-">>
  /\ \A c \in {"cbm", "cartons", "gross_weight", "product_cost",
               "freight_cost", "production_days"} : r[c] = Num(0)
  /\ \A c \in {"reference_code", "supplier"} : r[c] = Str(<<>>)
  /\ r.production_ready = ""
  /\ r.client = ""
  /\ \A c \in AttachmentColumns : r[c] = Null

\* C6: add row sends one create of an all-default row under the selected
\* container; when it succeeds the store holds exactly one more row, that
\* default row under that container, and the local list is the list the
\* add was invoked on (the list before the add whenever nothing else
\* changed it meanwhile), every row unchanged and in the same order,
\* followed by exactly that row.
C6_AddRowAppendsDefaults ==
  /\ (Handler = "addNewRow" /\ ~isReadOnly) =>
        /\ Len(lastEvent.calls) = 1
        /\ lastEvent.calls[1].method = "create"
        /\ lastEvent.calls[1].item.container_name = selectedContainer
  /\ (lastEvent.done.kind = "addNewRow" /\ lastEvent.ok) =>
        LET req == lastEvent.done
            n == Len(containerData)
            added == storeItems \ lastEvent.items
        IN /\ n = Len(req.rows) + 1
           /\ SubSeq(containerData, 1, n - 1) = req.rows
           /\ IsDefaultRow(containerData[n])
           /\ \A k \in 1..(n - 1) : containerData[k].id # containerData[n].id
           /\ lastEvent.items \subseteq storeItems
           /\ Cardinality(added) = 1
           /\ \A r \in added :
                 /\ r.id = containerData[n].id
                 /\ r.container_name = req.item.container_name
                 /\ IsDefaultStoreRow(r)

\* a row has been added to a table that already shows rows
C6_Witness ==
  /\ lastEvent.done.kind = "addNewRow"
  /\ lastEvent.ok
  /\ Len(lastEvent.done.rows) >= 1
  /\ lastEvent.rows = lastEvent.done.rows
  /\ Len(containerData) = Len(lastEvent.rows) + 1

\* C7: an edit commit of cell (rowId, field) sends one patch update for that
\* row id whose only column is the store-side name of the field; when it
\* succeeds only that column of that store row changes, and in the local
\* list (the list the commit was invoked on) only that field of that row
\* changes, every other field and row keeps its value and the order of the
\* rows is unchanged.
C7_EditCommitPatchesOneField ==
  /\ (Handler = "saveEdit" /\ lastEvent.calls # <<>>) =>
        /\ Len(lastEvent.calls) = 1
        /\ lastEvent.calls[1].method = "update"
        /\ lastEvent.calls[1].id = lastEvent.cell.id
        /\ DOMAIN lastEvent.calls[1].patch = {ColumnOf(lastEvent.cell.field)}
  /\ (lastEvent.done.kind = "saveEdit" /\ lastEvent.ok) =>
        LET req == lastEvent.done
            id == req.cell.id
            field == req.cell.field
            col == ColumnOf(field)
        IN /\ DOMAIN req.patch = {col}
           /\ Len(containerData) = Len(req.rows)
           /\ \A k \in DOMAIN req.rows :
                 /\ DOMAIN containerData[k] = DOMAIN req.rows[k]
                 /\ containerData[k].id = req.rows[k].id
                 /\ \A g \in DOMAIN req.rows[k] :
                       (req.rows[k].id # id \/ g # field) =>
                          containerData[k][g] = req.rows[k][g]
                 /\ req.rows[k].id = id =>
                       containerData[k][field] = req.patch[col]
           /\ Cardinality(storeItems) = Cardinality(lastEvent.items)
           /\ \A r \in lastEvent.items :
                 IF r.id # id THEN r \in storeItems
                 ELSE \E r2 \in storeItems :
                        /\ r2.id = id
                        /\ \A c \in StoreColumns :
                              r2[c] = IF c = col THEN req.patch[col] ELSE r[c]

\* a commit has changed a cell of a table of two rows or more
C7_Witness ==
  /\ lastEvent.done.kind = "saveEdit"
  /\ lastEvent.ok
  /\ Len(lastEvent.done.rows) >= 2
  /\ containerData # lastEvent.done.rows
  /\ storeItems # lastEvent.items

HasDigit(s) == \E i \in DOMAIN s : IsDigit(s[i])

\* digits with at most one "." among them
WellFormed(s) ==
  /\ HasDigit(s)
  /\ \A i \in DOMAIN s : IsDigit(s[i]) \/ s[i] = "."
  /\ Cardinality({i \in DOMAIN s : s[i] = "."}) <= 1

RECURSIVE SumFn(_)
SumFn(f) ==
  IF DOMAIN f = {} THEN 0
  ELSE LET i == CHOOSE j \in DOMAIN f : TRUE
       IN f[i] + SumFn([j \in DOMAIN f \ {i} |-> f[j]])

\* the decimal a well-formed text denotes, times Scale, digit by digit
DecimalOf(s) ==
  LET d == IF \E i \in DOMAIN s : s[i] = "."
           THEN CHOOSE i \in DOMAIN s : s[i] = "." ELSE Len(s) + 1
  IN SumFn([i \in {j \in DOMAIN s : j # d /\ j - d <= FracDigits} |->
              IF i < d THEN DigitVal(s[i]) * Pow10(d - 1 - i) * Scale
              ELSE DigitVal(s[i]) * Pow10(FracDigits - (i - d))])

C8Fields == {"cbm", "cartons", "grossWeight", "productCost", "freightCost"}

\* C8: committing an edit into cbm, cartons, grossWeight, productCost or
\* freightCost sends and stores a number: the decimal the buffer denotes,
\* or 0 when the buffer holds no digit; the commit shows no error at the
\* commit and never carries the text.
C8_NumericCommitStoresNumber ==
  /\ \A i \in DOMAIN inflight :
        (inflight[i].kind = "saveEdit" /\ inflight[i].cell.field \in C8Fields) =>
           LET req == inflight[i]
               v == req.patch[ColumnOf(req.cell.field)]
           IN /\ v.t = "number"
              /\ ~v.nan
              /\ ~HasDigit(req.text) => v = Num(0)
              /\ WellFormed(req.text) => v = Num(DecimalOf(req.text))
              /\ req.updatedItem[req.cell.field] = v
  /\ (Handler = "saveEdit" /\ lastEvent.cell.field \in C8Fields /\ ~isReadOnly) =>
        lastEvent.alert = ""
  /\ (lastEvent.done.kind = "saveEdit" /\ lastEvent.ok
      /\ lastEvent.done.cell.field \in C8Fields) =>
        LET req == lastEvent.done
            v == req.patch[ColumnOf(req.cell.field)]
        IN /\ v.t = "number"
           /\ \A k \in DOMAIN containerData :
                 containerData[k].id = req.id =>
                    containerData[k][req.cell.field] = v
           /\ \A r \in storeItems :
                 r.id = req.id => r[ColumnOf(req.cell.field)] = v

\* "abc" typed into the cbm cell of row 1 (150) has been committed: the
\* buffer holds no digit and the row and the store hold 0
C8_Witness ==
  /\ lastEvent.done.kind = "saveEdit"
  /\ lastEvent.ok
  /\ lastEvent.done.cell = [id |-> 1, field |-> "cbm"]
  /\ ~HasDigit(lastEvent.done.text)
  /\ FindRow(lastEvent.done.rows, 1).cbm = Num(150)
  /\ FindRow(containerData, 1).cbm = Num(0)
  /\ \E r \in storeItems : r.id = 1 /\ r.cbm = Num(0)

\* editingCell names no cell or one cell
OneActiveCell ==
  \/ editingCell = NoCell
  \/ /\ DOMAIN editingCell = {"id", "field"}
     /\ editingCell.id \in 1..MaxId
     /\ editingCell.field \in EditableFields

\* startEditing has run on a cell while another cell was active
StartedOverActiveCell ==
  /\ lastEvent.handlers = <<"startEditing">>
  /\ lastEvent.cell # NoCell
  /\ lastEvent.cell # editingCell

CommitInFlight(cell) ==
  \E i \in DOMAIN inflight :
     inflight[i].kind = "saveEdit" /\ inflight[i].cell = cell

\* C9 (as the spec states it): at most one cell is active, and starting an
\* edit on a cell while another cell's edit is pending abandons the pending
\* buffer: no update is issued for the abandoned cell.
C9_StartAbandonsPendingEdit ==
  /\ OneActiveCell
  /\ StartedOverActiveCell => ~CommitInFlight(lastEvent.cell)

\* C9 (amended): at most one cell is active; when an edit is started on a
\* cell while another cell is active and its input is displayed, the
\* pending edit of that cell has not been abandoned: its input has lost
\* focus, onBlur has run saveEdit, and a patch update for that cell is in
\* flight.  The step that starts the edit changes no row and sends no call.
C9_StartFollowsCommitOnBlur ==
  /\ OneActiveCell
  /\ lastEvent.handlers = <<"startEditing">> =>
        /\ containerData = lastEvent.rows
        /\ lastEvent.calls = <<>>
        /\ editingCell # NoCell
        /\ editValue = String(FindRow(containerData, editingCell.id)[editingCell.field])
  /\ (StartedOverActiveCell /\ InputMounted(lastEvent.rows, lastEvent.cell)) =>
        /\ ~isReadOnly
        /\ CommitInFlight(lastEvent.cell)

\* an edit was started on another cell while a cell's input was displayed
C9_Witness ==
  /\ StartedOverActiveCell
  /\ InputMounted(lastEvent.rows, lastEvent.cell)
  /\ CommitInFlight(lastEvent.cell)
  /\ \E i \in DOMAIN inflight :
        /\ inflight[i].kind = "saveEdit"
        /\ inflight[i].cell = lastEvent.cell
        /\ inflight[i].updatedItem # FindRow(inflight[i].rows, inflight[i].id)

\* the row list rows without the row of that id, the others in their order
RowsWithout(rows, id) ==
  IF \E k \in DOMAIN rows : rows[k].id = id
  THEN LET k == CHOOSE j \in DOMAIN rows : rows[j].id = id
       IN SubSeq(rows, 1, k - 1) \o SubSeq(rows, k + 1, Len(rows))
  ELSE rows

\* C10: delete row sends the delete only once the prompt is accepted; when
\* it is declined nothing is sent and the row list is unchanged; when the
\* delete succeeds the store loses exactly that row and the local list is
\* the list the delete was invoked on without the row of that id, the rest
\* in their order, so deleting the only row leaves zero rows.
C10_DeleteRowAfterConfirm ==
  /\ (\E k \in DOMAIN lastEvent.calls : lastEvent.calls[k].method = "delete") =>
        lastEvent.handlers = <<"deleteRow", "confirmed">>
  /\ lastEvent.handlers = <<"deleteRow", "declined">> =>
        /\ lastEvent.calls = <<>>
        /\ containerData = lastEvent.rows
        /\ storeItems = lastEvent.items
  /\ (lastEvent.done.kind = "deleteRow" /\ lastEvent.ok) =>
        LET req == lastEvent.done
        IN /\ containerData = RowsWithout(req.rows, req.id)
           /\ \A k \in DOMAIN containerData : containerData[k].id # req.id
           /\ storeItems = {r \in lastEvent.items : r.id # req.id}
           /\ (Len(req.rows) = 1 /\ req.rows[1].id = req.id) =>
                 containerData = <<>>

\* a row was added to an empty container and then deleted: zero rows in the
\* table and in the store
C10_Witness ==
  /\ lastEvent.done.kind = "deleteRow"
  /\ lastEvent.ok
  /\ nextId = 2
  /\ lastEvent.items # {}
  /\ IsDefaultRow(lastEvent.done.rows[1])
  /\ containerData = <<>>
  /\ storeItems = {}

-----------------------------------------------------------------------------
(* Specification of the attachment operations *)

UploadFields == {"packingList", "commercialInvoice"}

InitAttach == InitWith({FALSE}, {SeededStore})

NextAttach ==
  \/ \E i \in DOMAIN inflight, ok \in BOOLEAN : LoadContainersDone(i, ok)
  \/ \E i \in DOMAIN inflight, ok \in BOOLEAN : LoadContainerDataDone(i, ok)
  \/ \E id \in 1..MaxId, f \in UploadFields :
        ops < MaxOpsAttach /\ handleFileUpload(id, f, TestFile)
  \/ \E i \in DOMAIN inflight : UploadRead(i)
  \/ \E i \in DOMAIN inflight, ok \in BOOLEAN : UploadDone(i, ok)
  \/ \E id \in 1..MaxId, f \in AttachmentFields, c \in BOOLEAN :
        ops < MaxOpsAttach /\ deleteAttachment(id, f, c)
  \/ \E i \in DOMAIN inflight, ok \in BOOLEAN : DeleteAttachmentDone(i, ok)

SpecAttach == InitAttach /\ [][NextAttach]_vars

\* the row of that id has the attachment field absent in the row list and
\* the column null in the store
AttachmentGone(id, field) ==
  /\ \A k \in DOMAIN containerData :
        containerData[k].id = id => containerData[k][field] = Undefined
  /\ \A r \in storeItems : r.id = id => r[supabaseFieldMap(field)] = Null

\* C11: once a file has been uploaded to an attachment field and the
\* attachment has then been deleted (confirmed), and the requests of both
\* have succeeded and none is left in flight, the row's attachment field is
\* absent and the store's column is null.  The state is reached either by
\* the delete's response or by the upload's response, whichever is last.
C11_UploadThenDeleteLeavesAbsent ==
  (Quiescent /\ lastEvent.clean) =>
     /\ lastEvent.done.kind = "deleteAttachment" =>
           AttachmentGone(lastEvent.done.id, lastEvent.done.field)
     /\ (/\ lastEvent.done.kind = "upload"
         /\ \E k \in DOMAIN containerData :
               /\ containerData[k].id = lastEvent.done.id
               /\ containerData[k][lastEvent.done.field] = Undefined) =>
           AttachmentGone(lastEvent.done.id, lastEvent.done.field)

-----------------------------------------------------------------------------
(* Specification of container selection and creation *)

InitCont == InitWith(BOOLEAN, {SeededStore})

NextCont ==
  \/ \E i \in DOMAIN inflight, ok \in BOOLEAN : LoadContainersDone(i, ok)
  \/ \E i \in DOMAIN inflight, ok \in BOOLEAN : LoadContainerDataDone(i, ok)
  \/ \E c \in Range(containers) : ops < MaxOpsCont /\ SelectContainer(c)
  \/ \E s \in TypedNames : ops < MaxOpsCont /\ SetNewContainerName(s)
  \/ ops < MaxOpsCont /\ addNewContainer
  \/ \E i \in DOMAIN inflight, ok \in BOOLEAN : AddNewContainerDone(i, ok)

SpecCont == InitCont /\ [][NextCont]_vars

NoLoadInFlight ==
  \A i \in DOMAIN inflight : inflight[i].kind # "loadContainerData"

\* C12: in every state with no load of rows in flight, every row of the row
\* list belongs to the selected container, whatever the order in which the
\* loads for successively selected containers complete.
C12_RowsBelongToSelected ==
  NoLoadInFlight =>
     \A k \in DOMAIN containerData :
        \E r \in storeItems :
           /\ r.id = containerData[k].id
           /\ r.container_name = selectedContainer

\* the number of times a name occurs in a list
Occurrences(list, name) == Cardinality({k \in DOMAIN list : list[k] = name})

NoDuplicates(list) == \A k \in DOMAIN list : Occurrences(list, list[k]) = 1

\* addNewContainer has run, outside read-only mode, on a name whose trimmed
\* text is empty
AddedEmptyName ==
  /\ Handler = "addNewContainer"
  /\ ~isReadOnly
  /\ Trim(newContainerName) = <<>>

\* ... on a name whose trimmed text is in the container list
AddedListedName ==
  /\ Handler = "addNewContainer"
  /\ ~isReadOnly
  /\ Trim(newContainerName) # <<>>
  /\ \E k \in DOMAIN lastEvent.conts :
        lastEvent.conts[k] = Trim(newContainerName)[1]

\* no create request was issued and nothing changed
CreatePrevented ==
  /\ lastEvent.calls = <<>>
  /\ \A i \in DOMAIN inflight : inflight[i].kind # "addNewContainer"
  /\ containers = lastEvent.conts
  /\ selectedContainer = lastEvent.sel
  /\ containerData = lastEvent.rows
  /\ lastEvent.alert = ""

C14_CreateContainerSelectsIt ==
  (lastEvent.done.kind = "addNewContainer" /\ lastEvent.ok) =>
     LET req == lastEvent.done
     IN /\ Occurrences(lastEvent.conts, req.name) = 0
        /\ Occurrences(SortByName(storeContainers), req.name) = 1
        /\ Occurrences(containers, req.name) = 1
        /\ SubSeq(containers, 1, Len(containers) - 1) = req.conts
        /\ selectedContainer = req.name
        /\ containerData = <<>>
        /\ newContainerName = <<>>

\* container I300 was created while the table showed rows
C14_Witness ==
  /\ lastEvent.done.kind = "addNewContainer"
  /\ lastEvent.ok
  /\ lastEvent.done.name = "I300"
  /\ lastEvent.rows # <<>>
  /\ lastEvent.sel = "I110.11 SOUTH"
  /\ selectedContainer = "I300"
  /\ "I300" \in storeContainers

-----------------------------------------------------------------------------
(* Specification of the import *)

\* the user picks the next workbook once the previous import has answered
NoImportInFlight == \A i \in DOMAIN inflight : inflight[i].kind # "import"

InitImport == InitWith({FALSE}, {EmptyStore, OneRowStore})

NextImport ==
  \/ \E i \in DOMAIN inflight, ok \in BOOLEAN : LoadContainersDone(i, ok)
  \/ \E i \in DOMAIN inflight, ok \in BOOLEAN : LoadContainerDataDone(i, ok)
  \/ \E m \in {"add", "replace"} : ops < MaxOpsImport /\ SetImportMode(m)
  \/ \E sh \in Sheets :
        ops < MaxOpsImport /\ NoImportInFlight /\ importFromExcel(sh)
  \/ \E i \in DOMAIN inflight : ImportRead(i)
  \/ \E i \in DOMAIN inflight, ok \in BOOLEAN : ImportStep(i, ok)

SpecImport == InitImport /\ [][NextImport]_vars

\* the last step received the answer to the last call of an import and set
\* the row list
ImportCompleted == lastEvent.handlers = <<"import.step", "import.done">>

\* the reference code a sheet row gives: Reference Code, else Ref, else ''
SheetRef(row) ==
  IF "Reference Code" \in DOMAIN row /\ row["Reference Code"] # Str(<<>>)
  THEN row["Reference Code"]
  ELSE IF "Ref" \in DOMAIN row /\ row["Ref"] # Str(<<>>) THEN row["Ref"]
  ELSE Str(<<>>)

\* the last n rows of the row list are the rows created from the sheet, in
\* sheet order, each one a row of the store under that container
CreatedInSheetOrder(req) ==
  LET n == Len(req.sheet)
      m == Len(containerData) - n
  IN /\ m >= 0
     /\ \A k \in 1..n :
           LET row == containerData[m + k]
           IN /\ row.referenceCode = SheetRef(req.sheet[k])
              /\ \A j \in DOMAIN req.rows : req.rows[j].id # row.id
              /\ k < n => row.id < containerData[m + k + 1].id
              /\ \E r \in storeItems :
                    /\ r.id = row.id
                    /\ r.container_name = req.container
                    /\ PlainFields(r) = PlainOf(row)

\* the rows the store holds under a container
StoreRowsOf(name) == {r \in storeItems : r.container_name = name}

\* C15: when an import has succeeded throughout (started with no other
\* request on the rows in flight), in replace mode every row the store held
\* under the active container is deleted, so that the store holds under it
\* exactly the created rows, and the row list is exactly the created rows in
\* sheet order; in add mode no store row is removed and the row list is the
\* previous rows followed by the created rows in sheet order.
C15_ImportModes ==
  (ImportCompleted /\ lastEvent.done.quiet) =>
     LET req == lastEvent.done
     IN /\ CreatedInSheetOrder(req)
        /\ req.mode = "replace" =>
              /\ Len(containerData) = Len(req.sheet)
              /\ Cardinality(StoreRowsOf(req.container)) = Len(req.sheet)
        /\ req.mode = "add" =>
              /\ Len(containerData) = Len(req.rows) + Len(req.sheet)
              /\ SubSeq(containerData, 1, Len(req.rows)) = req.rows
              /\ lastEvent.items \subseteq storeItems

\* the call an import has outstanding, from the rows and the sheet it was
\* started with: the deletes of replace mode in row order, none of them after
\* a create, then the creates in sheet order
OutstandingCall(req, call) ==
  LET deleted == IF req.mode = "replace" THEN Len(req.rows) ELSE 0
      made == Len(req.created)
  IN IF call.method = "delete"
     THEN /\ req.mode = "replace"
          /\ made = 0
          /\ req.p < deleted
          /\ call.id = req.rows[req.p + 1].id
     ELSE /\ call.method = "create"
          /\ req.p = deleted + made
          /\ made < Len(req.sheet)
          /\ call.item.reference_code = SheetRef(req.sheet[made + 1])
          /\ call.item.container_name = req.container

\* the store after an import stopped at a failed call: the rows it deleted
\* are gone and the rows it created are there
PartiallyImported(req) ==
  /\ \A k \in DOMAIN req.created :
        \E r \in storeItems : r.id = req.created[k].id
  /\ \A k \in DOMAIN req.rows :
        (req.mode = "replace" /\ k <= req.p) =>
           \A r \in storeItems : r.id # req.rows[k].id

\* C16: every step of an import issues exactly one call, the one that
\* follows the calls already answered (replace mode: the deletes first, then
\* one create per sheet row in sheet order); when a call fails no further
\* call is issued, the import ends, the rows already created or deleted stay
\* so in the store, the row list is unchanged and the user is alerted.
C16_ImportSequentialAndPartial ==
  /\ lastEvent.handlers \in {<<"reader.onload">>, <<"import.step">>} =>
        /\ Len(lastEvent.calls) = 1
        /\ \A i \in DOMAIN inflight :
              inflight[i].kind = "import" =>
                 /\ inflight[i].phase = "calling"
                 /\ OutstandingCall(inflight[i], lastEvent.calls[1])
  /\ Handler = "import.failed" =>
        /\ lastEvent.calls = <<>>
        /\ NoImportInFlight
        /\ storeItems = lastEvent.items
        /\ PartiallyImported(lastEvent.done)
        /\ containerData = lastEvent.rows
        /\ lastEvent.alert = "Failed to import data. Please try again."

\* a replace import of a two-row sheet over a one-row table has failed at its
\* second create
C16_Witness ==
  /\ Handler = "import.failed"
  /\ lastEvent.done.mode = "replace"
  /\ Len(lastEvent.done.rows) = 1
  /\ Len(lastEvent.done.created) = 1
  /\ Len(containerData) = 1
  /\ Cardinality(storeItems) = 1
  /\ \A r \in storeItems : r.id # containerData[1].id

\* a row of the row list and a row of the store without their ids
WithoutId(row) == [f \in DOMAIN row \ {"id"} |-> row[f]]

\* two row lists are equal up to the ids the store assigned
SameRows(rows1, rows2) ==
  /\ Len(rows1) = Len(rows2)
  /\ \A k \in DOMAIN rows1 : WithoutId(rows1[k]) = WithoutId(rows2[k])

\* two sets of store rows are equal up to the ids the store assigned
SameItems(items1, items2) ==
  /\ Cardinality(items1) = Cardinality(items2)
  /\ {WithoutId(r) : r \in items1} = {WithoutId(r) : r \in items2}

\* the import that has just completed imported, in replace mode, the sheet
\* that was imported in replace mode right before it
ImportedTwice ==
  /\ ImportCompleted
  /\ lastEvent.done.mode = "replace"
  /\ lastEvent.done.after.sheet = lastEvent.done.sheet
  /\ lastEvent.done.after.mode = "replace"

\* C18: when a workbook is imported in replace mode and then imported again
\* in replace mode, the row list and the store's rows after the second
\* import equal, up to the ids assigned by the store, the row list and the
\* store's rows after the first import.
C18_ReplaceImportIdempotent ==
  ImportedTwice =>
     /\ SameRows(containerData, lastEvent.done.rows)
     /\ SameItems(storeItems, lastEvent.done.after.items)

\* a two-row workbook has been imported twice and the rows have new ids
C18_Witness ==
  /\ ImportedTwice
  /\ Len(lastEvent.done.sheet) = 2
  /\ Len(containerData) = 2
  /\ containerData[1].id # lastEvent.done.rows[1].id
  /\ Cardinality(storeItems) = 2

\* the status a sheet row asks for: its own when it is one of the four
\* statuses, Pending otherwise
SheetStatus(row) ==
  IF "Status" \in DOMAIN row /\ row["Status"] \in Statuses
  THEN row["Status"] ELSE "Pending"

\* the awaiting tags a sheet row asks for
SheetTags(row) ==
  IF "Awaiting" \in DOMAIN row THEN SplitTags(row["Awaiting"]) ELSE <<"-">>

\* C19: every row an import creates has one of the four statuses, the
\* sheet's when it is one of them and Pending when the cell is absent or
\* holds another value, and its awaiting list is the comma-split tags of the
\* cell, or the sentinel tag alone when the cell is absent.
C19_ImportedStatusAndTags ==
  lastEvent.handlers \in {<<"reader.onload">>, <<"import.step">>} =>
     \A i \in DOMAIN inflight, k \in DOMAIN lastEvent.calls :
        (inflight[i].kind = "import" /\ lastEvent.calls[k].method = "create") =>
           LET row == inflight[i].sheet[Len(inflight[i].created) + 1]
               item == lastEvent.calls[k].item
           IN /\ item.status \in Statuses
              /\ item.status = SheetStatus(row)
              /\ item.awaiting = SheetTags(row)

-----------------------------------------------------------------------------
(* Specification of the export, and of the import of an exported workbook. *)
(* The user acts when no request is in flight.                              *)

InitExport ==
  InitWith({FALSE}, {SeededStore, OneRowStore, CollidingStore, UnnamedStore})

NextExport ==
  \/ \E i \in DOMAIN inflight, ok \in BOOLEAN : LoadContainersDone(i, ok)
  \/ \E i \in DOMAIN inflight, ok \in BOOLEAN : LoadContainerDataDone(i, ok)
  \/ \E c \in {"I110.11 SOUTH", "I269.1"} :
        ops < MaxOpsExport /\ Quiescent /\ SelectContainer(c)
  \/ \E m \in {"add", "replace"} :
        ops < MaxOpsExport /\ Quiescent /\ SetImportMode(m)
  \/ ops < MaxOpsExport /\ Quiescent /\ exportToExcel
  \/ \E i \in DOMAIN inflight : ExportLoaded(i)
  \/ \E i \in DOMAIN inflight, ok \in BOOLEAN : ExportFetch(i, ok)
  \/ \E i \in DOMAIN inflight : ExportZip(i)
  \/ /\ ops < MaxOpsExport
     /\ Quiescent
     /\ download.kind # "none"
     /\ importFromExcel(download.sheet)
  \/ \E i \in DOMAIN inflight : ImportRead(i)
  \/ \E i \in DOMAIN inflight, ok \in BOOLEAN : ImportStep(i, ok)

SpecExport == InitExport /\ [][NextExport]_vars

\* the columns of a row the round trip is about
Visible(row) ==
  [referenceCode |-> row.referenceCode, supplier |-> row.supplier,
   cbm |-> row.cbm, cartons |-> row.cartons, grossWeight |-> row.grossWeight,
   productCost |-> row.productCost, freightCost |-> row.freightCost,
   status |-> row.status, client |-> row.client,
   awaiting |-> JoinTags(row.awaiting)]

\* req imports, in replace mode, the workbook of the last export (of a
\* table that had a row) into a container that held no row: the table was
\* empty and the store holds under the container only rows this import has
\* created
RoundTrip(req, created) ==
  /\ req.kind = "import"
  /\ req.mode = "replace"
  /\ download.kind # "none"
  /\ download.rows # <<>>
  /\ req.sheet = download.sheet
  /\ req.rows = <<>>
  /\ \A r \in StoreRowsOf(req.container) :
        \E k \in DOMAIN created : created[k].id = r.id

\* C17: when the workbook of an export of a table is imported in replace mode into a
\* fresh container, the rows the import creates are as many as the rows of
\* the exported table, in the same order, each equal to the original row on
\* reference code, supplier, cbm, cartons, gross weight, product cost,
\* freight cost, status, client and joined awaiting tags.
C17_ExportImportRoundTrip ==
  /\ \A i \in DOMAIN inflight :
        RoundTrip(inflight[i], inflight[i].created) =>
           /\ Len(inflight[i].created) <= Len(download.rows)
           /\ \A k \in DOMAIN inflight[i].created :
                 Visible(inflight[i].created[k]) = Visible(download.rows[k])
  /\ (ImportCompleted /\ RoundTrip(lastEvent.done, containerData)) =>
        /\ Len(containerData) = Len(download.rows)
        /\ \A k \in DOMAIN containerData :
              Visible(containerData[k]) = Visible(download.rows[k])

\* the rows of a table that have a reference code
WithReference(rows) == {k \in DOMAIN rows : Truthy(rows[k].referenceCode)}

\* the attachments row k of a table has, as files of its folder
AttachmentsOf(rows, k) ==
  {[folder |-> FolderName(rows[k]), name |-> rows[k][f].name,
    url |-> rows[k][f].url] : f \in {g \in AttachmentFields : rows[k][g] # Undefined}}

\* C20: an export downloads a plain workbook exactly when no row of the
\* table has an attachment; otherwise it downloads a zip that holds exactly
\* one workbook and one folder per row that has a reference code, distinct
\* rows having distinct folders, and every file of a row's folder is an
\* attachment that row has.
C20_ExportPlainOrZip ==
  download.kind # "none" =>
     /\ download.kind = "xlsx" <=> ~HasAttachments(download.rows)
     /\ Cardinality(download.workbooks) = 1
     /\ download.kind = "zip" =>
           /\ Cardinality(download.folders)
                = Cardinality(WithReference(download.rows))
           /\ \A k \in WithReference(download.rows) :
                 /\ FolderName(download.rows[k]) \in download.folders
                 /\ \A x \in download.files :
                       x.folder = FolderName(download.rows[k]) =>
                          x \in AttachmentsOf(download.rows, k)

\* attachment number n of the export loop over a table: the rows in list
\* order, within a row the fields in the loop's order
RECURSIVE NthAttachment(_, _, _, _)
NthAttachment(rows, n, k, j) ==
  IF j > Len(ExportAttachments) THEN NthAttachment(rows, n, k + 1, 1)
  ELSE IF Truthy(rows[k].referenceCode) /\ rows[k][ExportAttachments[j]] # Undefined
       THEN IF n = 1 THEN [folder |-> FolderName(rows[k]),
                           file |-> rows[k][ExportAttachments[j]]]
            ELSE NthAttachment(rows, n - 1, k, j + 1)
       ELSE NthAttachment(rows, n, k, j + 1)

\* the number of attachments of the rows that have a reference code
FetchCount(rows) ==
  Cardinality({<<k, f>> \in (DOMAIN rows) \X AttachmentFields :
                 Truthy(rows[k].referenceCode) /\ rows[k][f] # Undefined})

\* C21: an export fetches one attachment at a time, in row order, the next
\* one after the answer to the one before; a failed fetch is skipped and
\* nothing else is: when the export ends it downloads a zip that holds the
\* workbook and, for every fetch that succeeded, a file of the attachment's
\* name in its row's folder, and it shows no alert.
C21_ExportFetchesSequentially ==
  /\ \A i \in DOMAIN inflight :
        inflight[i].kind = "export" =>
           LET req == inflight[i]
           IN /\ Len(req.oks) = req.p
              /\ req.p <= FetchCount(req.rows)
              /\ req.phase = "zipping" <=> req.p = FetchCount(req.rows)
              /\ (req.phase = "fetching"
                  /\ lastEvent.handlers \in {<<"export.loaded">>, <<"export.fetched">>}
                  /\ (lastEvent.done = NoReq \/ lastEvent.done.rows = req.rows)) =>
                    /\ Len(lastEvent.calls) <= 1
                    /\ \A k \in DOMAIN lastEvent.calls :
                          lastEvent.calls[k].url
                            = NthAttachment(req.rows, req.p + 1, 1, 1).file.url
  /\ Handler = "export.zipped" =>
        LET req == lastEvent.done
        IN /\ download.kind = "zip"
           /\ download.workbooks = {WorkbookName(req.container)}
           /\ download.sheet = ExportedSheet(req.rows)
           /\ lastEvent.alert = ""
           /\ Len(req.oks) = FetchCount(req.rows)
           /\ \A n \in DOMAIN req.oks :
                 req.oks[n] =>
                    \E x \in download.files :
                       /\ x.folder = NthAttachment(req.rows, n, 1, 1).folder
                       /\ x.name = NthAttachment(req.rows, n, 1, 1).file.name

\* an export of two attachments has ended with a download although its
\* first fetch failed, and the second attachment is in the archive
C21_Witness ==
  /\ Handler = "export.zipped"
  /\ lastEvent.done.oks = <<FALSE, TRUE>>
  /\ download.kind = "zip"
  /\ Cardinality(download.files) = 1

\* C22: when a file is selected for an attachment field (not read-only) the
\* row's field holds the local preview {url, name} while the update is still
\* to be answered; when the update succeeds the save notification is shown;
\* when it fails the user is alerted and the row list, with the preview, is
\* left as it was.
C22_UploadPreviewThenOutcome ==
  /\ (Handler = "handleFileUpload" /\ lastEvent.alert = "") =>
        LET req == inflight[Len(inflight)]
        IN /\ req.kind = "upload"
           /\ \A k \in DOMAIN containerData :
                 containerData[k].id = req.id =>
                    containerData[k][req.field]
                      = [url |-> ObjectURL(req.file), name |-> req.file.name]
  /\ (Handler = "upload.done" /\ lastEvent.ok) =>
        /\ lastEvent.handlers = <<"upload.done", "setShowSaveNotification">>
        /\ lastEvent.alert = ""
  /\ (Handler = "upload.done" /\ ~lastEvent.ok) =>
        /\ lastEvent.alert # ""
        /\ containerData = lastEvent.rows

\* C23: when a request to the store is rejected, the loads of the container
\* list and of a container's rows included, the step that receives the
\* rejection shows an alert and leaves the container list and the row list
\* as they were.
C23_RejectionAlertsAndKeepsState ==
  (lastEvent.done # NoReq /\ ~lastEvent.ok) =>
     /\ lastEvent.alert # ""
     /\ containers = lastEvent.conts
     /\ containerData = lastEvent.rows

-----------------------------------------------------------------------------
(* Specification of the URL: the page is loaded with or without a container *)
(* parameter; the store holds a container the user created earlier (I300),  *)
(* which is not one of the names the list starts with.                      *)

UrlParams == {"", "I269.1", "I269.2", "I300"}

\* the state after the mount effects: the URL effect selects the parameter
\* when the initial list has it, the effects of [selectedContainer] push the
\* URL and issue the load for the initial selection and again for the new one
InitUrl ==
  \E containerFromUrl \in UrlParams :
    LET accepted == /\ containerFromUrl # ""
                    /\ containerFromUrl \in Range(DefaultContainers)
        first == PushState([entries |-> <<containerFromUrl>>, at |-> 1],
                           "I110.11 SOUTH")
    IN /\ isReadOnly = FALSE
       /\ selectedContainer = IF accepted THEN containerFromUrl
                               ELSE "I110.11 SOUTH"
       /\ containers = DefaultContainers
       /\ containerData = <<>>
       /\ editingCell = NoCell
       /\ editValue = <<>>
       /\ focused = FALSE
       /\ importMode = "add"
       /\ newContainerName = <<>>
       /\ storeContainers = {"I110.11 SOUTH", "I269.1", "I300"}
       /\ storeItems = SeededItems
       /\ nextId = 4
       /\ inflight =
            <<[kind |-> "loadContainers"],
              [kind |-> "loadContainerData", container |-> "I110.11 SOUTH"]>>
            \o (IF accepted
                THEN <<[kind |-> "loadContainerData",
                        container |-> containerFromUrl]>>
                ELSE <<>>)
       /\ download = NoFile
       /\ previewModal = ClosedPreview
       /\ history = IF accepted THEN PushState(first, containerFromUrl)
                     ELSE first
       /\ ops = 0
       /\ lastEvent = [handlers |-> <<"mount">>, alert |-> "",
                       calls |-> <<[method |-> "getAll"],
                                   [method |-> "getByContainer",
                                    container |-> "I110.11 SOUTH"]>>,
                       done |-> NoReq, ok |-> TRUE, clean |-> TRUE,
                       rows |-> <<>>, conts |-> DefaultContainers,
                       cell |-> NoCell, items |-> storeItems,
                       sel |-> "I110.11 SOUTH"]

NextUrl ==
  \/ \E i \in DOMAIN inflight, ok \in BOOLEAN : LoadContainersDone(i, ok)
  \/ \E i \in DOMAIN inflight, ok \in BOOLEAN : LoadContainerDataDone(i, ok)
  \/ \E c \in Range(containers) : ops < MaxOpsUrl /\ SelectContainer(c)
  \/ \E d \in {-1, 1} : ops < MaxOpsUrl /\ Navigate(d)

SpecUrl == InitUrl /\ [][NextUrl]_vars

\* the container parameter of the current URL
UrlContainer == history.entries[history.at]

\* C24: whenever the selected container changes the URL's container
\* parameter is set to it; when the page is loaded, or the user goes back or
\* forward, with a container parameter that names a container of the store,
\* that container is the selected one.
C24_UrlCarriesSelectedContainer ==
  /\ selectedContainer # lastEvent.sel => UrlContainer = selectedContainer
  /\ (Handler = "mount" /\ history.entries[1] \in storeContainers) =>
        selectedContainer = history.entries[1]
  /\ (Handler = "popstate" /\ lastEvent.handlers[2] \in storeContainers) =>
        selectedContainer = lastEvent.handlers[2]

-----------------------------------------------------------------------------
(* Specification of overlapping row operations: add row, edit commit,      *)
(* status update, delete row and delete attachment started before the      *)
(* response of an earlier one                                               *)

MaxOpsOverlap == 3

InitOverlap == InitWith({FALSE}, {SeededStore})

NextOverlap ==
  \/ \E i \in DOMAIN inflight, ok \in BOOLEAN : LoadContainersDone(i, ok)
  \/ \E i \in DOMAIN inflight, ok \in BOOLEAN : LoadContainerDataDone(i, ok)
  \/ ops < MaxOpsOverlap /\ addNewRow
  \/ \E i \in DOMAIN inflight, ok \in BOOLEAN : AddNewRowDone(i, ok)
  \/ \E id \in 1..MaxId, f \in {"referenceCode"} :
        ops < MaxOpsOverlap /\ ClickCell(id, f)
  \/ \E s \in {<<"Z">>} : ops < MaxOpsOverlap /\ TypeValue(s)
  \/ ops < MaxOpsOverlap /\ PressEnter
  \/ \E i \in DOMAIN inflight, ok \in BOOLEAN : SaveEditDone(i, ok)
  \/ \E id \in 1..MaxId :
        ops < MaxOpsOverlap /\ updateStatus(id, "Need Payment")
  \/ \E i \in DOMAIN inflight, ok \in BOOLEAN : UpdateStatusDone(i, ok)
  \/ \E id \in 1..MaxId : ops < MaxOpsOverlap /\ deleteRow(id, TRUE)
  \/ \E i \in DOMAIN inflight, ok \in BOOLEAN : DeleteRowDone(i, ok)
  \/ \E id \in 1..MaxId, f \in AttachmentFields :
        ops < MaxOpsOverlap /\ deleteAttachment(id, f, TRUE)
  \/ \E i \in DOMAIN inflight, ok \in BOOLEAN : DeleteAttachmentDone(i, ok)

SpecOverlap == InitOverlap /\ [][NextOverlap]_vars

RowListKinds ==
  {"addNewRow", "saveEdit", "updateStatus", "deleteRow", "deleteAttachment"}

\* rows is S with the value v in the field of the row of that id and every
\* other field of every row as in S
PatchedFrom(S, rows, id, field, v) ==
  /\ Len(rows) = Len(S)
  /\ \A k \in DOMAIN S :
        /\ DOMAIN rows[k] = DOMAIN S[k]
        /\ \A g \in DOMAIN S[k] :
              rows[k][g] = IF S[k].id = id /\ g = field THEN v ELSE S[k][g]

\* rows is what the operation of the request makes of the list S
TransformOf(req, S, rows) ==
  CASE req.kind = "addNewRow" ->
         /\ Len(rows) = Len(S) + 1
         /\ SubSeq(rows, 1, Len(S)) = S
         /\ IsDefaultRow(rows[Len(rows)])
    [] req.kind = "saveEdit" ->
         PatchedFrom(S, rows, req.cell.id, req.cell.field,
                     req.patch[ColumnOf(req.cell.field)])
    [] req.kind = "updateStatus" ->
         PatchedFrom(S, rows, req.id, "status", req.status)
    [] req.kind = "deleteRow" -> rows = RowsWithout(S, req.id)
    [] req.kind = "deleteAttachment" ->
         PatchedFrom(S, rows, req.id, req.field, Undefined)

\* C25: overlapping operations are last-response-wins on the whole list:
\* whenever a mutating operation (add row, edit commit, status update,
\* delete row, delete attachment) started from the row list S succeeds, the
\* row list is that operation's transformation of S alone, whatever the
\* operations that were started from S and completed before it have made of
\* the list.
C25_LastResponseWins ==
  (lastEvent.done.kind \in RowListKinds /\ lastEvent.ok) =>
     TransformOf(lastEvent.done, lastEvent.done.rows, containerData)

\* two operations started from the same list S have both succeeded: the
\* earlier one had made a different list of S, and the later one was
\* started before that
C25_Witness ==
  /\ lastEvent.done.kind \in RowListKinds
  /\ lastEvent.ok
  /\ Quiescent
  /\ ops = 2
  /\ lastEvent.rows # lastEvent.done.rows
  /\ \E k \in RowListKinds \ {lastEvent.done.kind} :
        \/ k = "deleteRow" /\ Len(lastEvent.rows) < Len(lastEvent.done.rows)
        \/ k = "addNewRow" /\ Len(lastEvent.rows) > Len(lastEvent.done.rows)
        \/ /\ k \in {"updateStatus", "deleteAttachment"}
           /\ Len(lastEvent.rows) = Len(lastEvent.done.rows)

-----------------------------------------------------------------------------
(* File preview: handleFilePreview and the classification of the modal.    *)
(* File names and URLs are sequences of characters here, so that           *)
(* toLowerCase and includes work on them as in the code.                   *)

UpperLetters ==
  <<"A", "B", "C", "D", "E", "F", "G", "H", "I", "J", "K", "L", "M",
    "N", "O", "P", "Q", "R", "S", "T", "U", "V", "W", "X", "Y", "Z">>

LowerLetters ==
  <<"a", "b", "c", "d", "e", "f", "g", "h", "i", "j", "k", "l", "m",
    "n", "o", "p", "q", "r", "s", "t", "u", "v", "w", "x", "y", "z">>

\* String.prototype.toLowerCase
toLowerCase(text) ==
  [i \in DOMAIN text |->
     IF \E k \in DOMAIN UpperLetters : UpperLetters[k] = text[i]
     THEN LowerLetters[CHOOSE k \in DOMAIN UpperLetters :
                          UpperLetters[k] = text[i]]
     ELSE text[i]]

\* String.prototype.includes
includes(text, part) ==
  \E i \in 1..(Len(text) - Len(part) + 1) :
     SubSeq(text, i, i + Len(part) - 1) = part

\* the second argument of handleFilePreview at the five buttons
PreviewLabel(field) ==
  CASE field = "packingList" ->
         <<"P", "a", "c", "k", "i", "n", "g", " ", "L", "i", "s", "t">>
    [] field = "commercialInvoice" ->
         <<"C", "o", "m", "m", "e", "r", "c", "i", "a", "l", " ",
           "I", "n", "v", "o", "i", "c", "e">>
    [] field = "payment" -> <<"P", "a", "y", "m", "e", "n", "t">>
    [] field = "hbl" -> <<"H", "B", "L">>
    [] field = "certificates" ->
         <<"C", "e", "r", "t", "i", "f", "i", "c", "a", "t", "e", "s">>

\* setPreviewModal of handleFilePreview(fileData, fileName): a string is
\* the file itself, named by fileName; an object gives its url and name
PreviewOf(fileData, fileName) ==
  IF "t" \in DOMAIN fileData
  THEN [show |-> TRUE, file |-> fileData,
        name |-> IF fileName = <<>> THEN <<"F", "i", "l", "e">> ELSE fileName]
  ELSE [show |-> TRUE,
        file |-> IF "url" \in DOMAIN fileData THEN Str(fileData.url)
                 ELSE Undefined,
        name |-> fileData.name]

\* the preview button of an attachment cell (it shows only on an attachment)
handleFilePreview(id, field) ==
  /\ ~focused
  /\ HasRow(containerData, id)
  /\ FindRow(containerData, id)[field] # Undefined
  /\ ops' = ops + 1
  /\ previewModal' = PreviewOf(FindRow(containerData, id)[field],
                               PreviewLabel(field))
  /\ lastEvent' = Event(<<"handleFilePreview">>, "", <<>>, NoReq, TRUE)
  /\ UNCHANGED <<isReadOnly, download, history, selectedContainer, containers,
                 containerData, uiVars, formVars, storeVars, inflight>>

\* the X button of the modal
closePreview ==
  /\ previewModal.show
  /\ ops' = ops + 1
  /\ previewModal' = ClosedPreview
  /\ lastEvent' = Event(<<"closePreview">>, "", <<>>, NoReq, TRUE)
  /\ UNCHANGED <<isReadOnly, download, history, selectedContainer, containers,
                 containerData, uiVars, formVars, storeVars, inflight>>

NameHas(m, word) == includes(toLowerCase(m.name), word)

\* the branch of the modal's conditional that renders previewModal
\* (typeof previewModal.file === 'string' holds whenever the file is truthy)
PreviewKind(m) ==
  IF ~m.show THEN "closed"
  ELSE IF m.file.t # "string" \/ m.file.v = <<>> THEN "nothing"
  ELSE IF \/ NameHas(m, <<"p", "d", "f">>)
          \/ includes(m.file.v, <<".", "p", "d", "f">>)
       THEN "pdf"
  ELSE IF \/ NameHas(m, <<"e", "x", "c", "e", "l">>)
          \/ NameHas(m, <<"x", "l", "s", "x">>)
          \/ NameHas(m, <<"x", "l", "s">>)
          \/ includes(m.file.v, <<".", "x", "l", "s", "x">>)
          \/ includes(m.file.v, <<".", "x", "l", "s">>)
       THEN "excel"
  ELSE IF \/ NameHas(m, <<"w", "o", "r", "d">>)
          \/ NameHas(m, <<"d", "o", "c", "x">>)
          \/ NameHas(m, <<"d", "o", "c">>)
          \/ includes(m.file.v, <<".", "d", "o", "c", "x">>)
          \/ includes(m.file.v, <<".", "d", "o", "c">>)
       THEN "word"
  ELSE IF \/ NameHas(m, <<"i", "m", "a", "g", "e">>)
          \/ NameHas(m, <<"j", "p", "g">>)
          \/ NameHas(m, <<"j", "p", "e", "g">>)
          \/ NameHas(m, <<"p", "n", "g">>)
          \/ NameHas(m, <<"g", "i", "f">>)
          \/ includes(m.file.v, <<".", "j", "p", "g">>)
          \/ includes(m.file.v, <<".", "j", "p", "e", "g">>)
          \/ includes(m.file.v, <<".", "p", "n", "g">>)
          \/ includes(m.file.v, <<".", "g", "i", "f">>)
       THEN "image"
  ELSE "other"

MaxOpsPreview == 2

PreviewNames ==
  {<<"q", ".", "p", "d", "f">>, <<"Q", ".", "P", "D", "F">>,
   <<"q", ".", "x", "l", "s">>, <<"q", ".", "d", "o", "c">>,
   <<"q", ".", "p", "n", "g">>, <<"q", ".", "t", "x", "t">>}

PreviewUrls ==
  {<<"/", "u", ".", "p", "d", "f">>, <<"/", "u", ".", "P", "D", "F">>,
   <<"/", "u", ".", "x", "l", "s", "x">>, <<"/", "u", ".", "d", "o", "c">>,
   <<"/", "u", ".", "g", "i", "f">>, <<"/", "u">>}

\* one row whose packing list is an object {url, name}
PreviewStores ==
  {[items |-> {SeedRow(1, "I110.11 SOUTH", <<"A">>, 150,
                       [url |-> u, name |-> n], Null)},
    nextId |-> 2] : n \in PreviewNames, u \in PreviewUrls}

InitPreview == InitWith({FALSE}, PreviewStores)

NextPreview ==
  \/ \E i \in DOMAIN inflight, ok \in BOOLEAN : LoadContainersDone(i, ok)
  \/ \E i \in DOMAIN inflight, ok \in BOOLEAN : LoadContainerDataDone(i, ok)
  \/ \E id \in 1..MaxId, f \in AttachmentFields :
        ops < MaxOpsPreview /\ handleFilePreview(id, f)
  \/ ops < MaxOpsPreview /\ closePreview

SpecPreview == InitPreview /\ [][NextPreview]_vars

\* the first category, in the order of the modal, with a keyword in the
\* lower-cased file name
NameCategory(m) ==
  IF NameHas(m, <<"p", "d", "f">>) THEN "pdf"
  ELSE IF \/ NameHas(m, <<"e", "x", "c", "e", "l">>)
          \/ NameHas(m, <<"x", "l", "s">>)
       THEN "excel"
  ELSE IF \/ NameHas(m, <<"w", "o", "r", "d">>)
          \/ NameHas(m, <<"d", "o", "c">>)
       THEN "word"
  ELSE IF \/ NameHas(m, <<"i", "m", "a", "g", "e">>)
          \/ NameHas(m, <<"j", "p", "g">>)
          \/ NameHas(m, <<"j", "p", "e", "g">>)
          \/ NameHas(m, <<"p", "n", "g">>)
          \/ NameHas(m, <<"g", "i", "f">>)
       THEN "image"
  ELSE "none"

\* C26: the file name takes precedence over the URL in the classification
\* of a previewed attachment: when the lower-cased name holds a keyword of
\* some category, the modal renders the first category (PDF, spreadsheet,
\* word-processing, image) the name matches, whatever the URL holds; the
\* URL's extension decides only when the name matches no category.
C26_FilenameTakesPrecedence ==
  (previewModal.show /\ NameCategory(previewModal) # "none") =>
     PreviewKind(previewModal) = NameCategory(previewModal)

-----------------------------------------------------------------------------
(* Editing while a commit is in flight *)

\* C27: when the commit of cell A is in flight and the user has started
\* editing another cell B, the completion of A's commit (success or
\* failure) leaves B the active cell and B's pending buffer as it was.
C27_CommitKeepsLaterEdit ==
  [][(/\ lastEvent'.handlers = <<"saveEdit.done">>
      /\ editingCell # NoCell
      /\ editingCell # lastEvent'.done.cell)
       => (editingCell' = editingCell /\ editValue' = editValue)]_vars

\* C28: in every reachable state an active cell is a cell of a row of the
\* current row list: no delete, import or container switch leaves the
\* active cell and its buffer pointing at a row that is not in the table.
C28_ActiveCellInTable ==
  editingCell # NoCell => HasRow(containerData, editingCell.id)

-----------------------------------------------------------------------------
(* Row ids *)

-----------------------------------------------------------------------------
(* Attachments in the exported archive *)

\* the export that has just saved its zip
ZipSaved == lastEvent.handlers = <<"export.zipped", "download">>

\* the export loop fetched the attachment in that field of row k and the
\* fetch failed
FetchFailed(req, k, f) ==
  \E n \in DOMAIN req.todo :
     /\ req.todo[n] = [row |-> k, field |-> f]
     /\ ~req.oks[n]

\* C30: when an export produces a zip, every attachment of every row is in
\* the archive, in the folder of its row, unless its fetch failed: none is
\* left out because its row has an empty reference code or because two
\* rows' reference codes give the same folder name.
C30_ZipHoldsEveryFetchedAttachment ==
  ZipSaved =>
     LET req == lastEvent.done
     IN \A k \in DOMAIN req.rows, f \in AttachmentFields :
           (req.rows[k][f] # Undefined /\ ~FetchFailed(req, k, f)) =>
              [folder |-> FolderName(req.rows[k]),
               name |-> req.rows[k][f].name,
               url |-> req.rows[k][f].url] \in download.files

=============================================================================
